---- MODULE Spec2Model ----
(***************************************************************************)
(* Classification scoring engine and pairwise comparator of the            *)
(* export-screening and tool-evaluation examples:                          *)
(*   examples/showcase/export-screening/evals/compute_confusion_matrix.py  *)
(*   examples/showcase/export-screening/evals/ci_check.py                  *)
(*   examples/showcase/tool-evaluation-plugins/scripts/                    *)
(*                                          pairwise_tool_compare.py       *)
(*                                                                         *)
(* Representation.                                                         *)
(*  - A Python str is a sequence of one-character strings, so that the     *)
(*    regular expression, startswith and split work on characters.         *)
(*  - None is the tuple <<"None">>, which no str equals (a str holds       *)
(*    one-character elements only).                                        *)
(*  - A float that the code rounds to 4 decimals is the integer number of  *)
(*    1/Scale units; an unrounded float is the exact fraction <<n, d>>.    *)
(*    Within the bounds used here no quotient of counts is a decimal tie   *)
(*    (that needs a denominator divisible by 32), so the exact fraction    *)
(*    and the double round to the same 4 decimals.  The one place where    *)
(*    the double decides the last digit is the mean of two rounded         *)
(*    values with an odd sum: see compute_overall_metrics.                 *)
(***************************************************************************)
EXTENDS Integers, Sequences, FiniteSets, TLC

VARIABLES
    pc,          \* position of the run
    result,      \* extractor run: the evaluation record handed to the extractor
    labels,      \* extractor run: the pair (ai_class, expected_class) returned
    fileLines,   \* metrics run: the lines of the results file
    results,     \* metrics run: the records load_results returned
    idx,         \* metrics run: number of records build_confusion_matrix has folded
    matrix,      \* metrics run: matrix[expected][predicted]
    metrics,     \* metrics run: the value compute_metrics returned
    verdict,     \* gate: the value check_threshold returned
    input,       \* pairwise run: the JSON object read from stdin
    output,      \* pairwise run: the JSON object printed
    exitCode     \* pairwise run / gate: the process exit code

vars == <<pc, result, labels, fileLines, results, idx, matrix, metrics,
          verdict, input, output, exitCode>>

-----------------------------------------------------------------------------
(* Python values *)

None == <<"None">>

\* Python truthiness of a str-or-None value: None and "" are false.
Truthy(x) == x # None /\ x # <<>>

Max(S) == CHOOSE x \in S : \A y \in S : y <= x
Min(S) == CHOOSE x \in S : \A y \in S : x <= y

\* dict.get(key, []) on a record
Get(d, key) == IF key \in DOMAIN d THEN d[key] ELSE <<>>

-----------------------------------------------------------------------------
(* Characters and strings *)

Upper == {"A","B","C","D","E","F","G","H","I","J","K","L","M",
          "N","O","P","Q","R","S","T","U","V","W","X","Y","Z"}
Lower == {"a","b","c","d","e","f","g","h","i","j","k","l","m",
          "n","o","p","q","r","s","t","u","v","w","x","y","z"}
Digit == {"0","1","2","3","4","5","6","7","8","9"}

\* \w of the re module
WordChar == Upper \cup Lower \cup Digit \cup {"_"}
\* \s of the re module (the whitespace the pool uses)
SpaceChar == {" ", "\t"}

Low == <<"L","o","w">>
Medium == <<"M","e","d","i","u","m">>
High == <<"H","i","g","h">>
Critical == <<"C","r","i","t","i","c","a","l">>

CLASSES == <<Low, Medium, High>>

ClassSet == {CLASSES[i] : i \in 1..Len(CLASSES)}

\* the literals of comparison_pattern and of the fallback marker
AiEq == <<"A","I","=">>
ExpectedEq == <<"E","x","p","e","c","t","e","d","=">>
RiskLevelEq == <<"r","i","s","k","L","e","v","e","l","=">>

\* s[i:].startswith(lit)
HasAt(s, i, lit) ==
    /\ i >= 1
    /\ i + Len(lit) - 1 <= Len(s)
    /\ SubSeq(s, i, i + Len(lit) - 1) = lit

\* length of the longest run of characters of class cls starting at s[i]
RECURSIVE Run(_, _, _)
Run(s, i, cls) ==
    IF i <= Len(s) /\ s[i] \in cls THEN 1 + Run(s, i + 1, cls) ELSE 0

(***************************************************************************)
(* comparison_pattern = AI=(\w+),?\s*Expected=(\w+)                         *)
(*                                                                         *)
(* RestAt matches  ,?\s*Expected=(\w+)  at position p and returns group 2  *)
(* or <<>>.  ",?" and "\s*" are greedy; giving a character back never      *)
(* helps, because the next thing to match is "E", which is neither a comma *)
(* nor whitespace.  The last \w+ is greedy and nothing follows it.         *)
(***************************************************************************)
RestAt(s, p) ==
    LET p1 == IF p <= Len(s) /\ s[p] = "," THEN p + 1 ELSE p
        p2 == p1 + Run(s, p1, SpaceChar)
        p3 == p2 + Len(ExpectedEq)
        n2 == Run(s, p3, WordChar)
    IN  IF HasAt(s, p2, ExpectedEq) /\ n2 >= 1
        THEN SubSeq(s, p3, p3 + n2 - 1)
        ELSE <<>>

(***************************************************************************)
(* MatchAt matches the whole pattern at position i and returns             *)
(* <<group 1, group 2>> or <<>>.  The first \w+ is greedy with             *)
(* backtracking: the longest group 1 after which the rest matches.         *)
(***************************************************************************)
MatchAt(s, i) ==
    LET g  == i + Len(AiEq)
        n1 == Run(s, g, WordChar)
        ks == {k \in 1..n1 : RestAt(s, g + k) # <<>>}
    IN  IF HasAt(s, i, AiEq) /\ ks # {}
        THEN <<SubSeq(s, g, g + Max(ks) - 1), RestAt(s, g + Max(ks))>>
        ELSE <<>>

\* comparison_pattern.search(s): the leftmost match, or <<>> for no match
Search(s) ==
    LET starts == {i \in 1..Len(s) : s[i] = "A" /\ MatchAt(s, i) # <<>>}
    IN  IF starts = {} THEN <<>> ELSE MatchAt(s, Min(starts))

\* hit.split("=")[1] for a hit that holds at least one "="
SplitEq1(s) ==
    LET first == Min({i \in 1..Len(s) : s[i] = "="})
        later == {i \in (first + 1)..Len(s) : s[i] = "="}
        stop  == IF later = {} THEN Len(s) + 1 ELSE Min(later)
    IN  SubSeq(s, first + 1, stop - 1)

-----------------------------------------------------------------------------
(* parse_classification_from_result *)

\* index of the first string of seq that the pattern matches, 0 if none
FirstMatch(seq) ==
    LET hitsAt == {i \in 1..Len(seq) : Search(seq[i]) # <<>>}
    IN  IF hitsAt = {} THEN 0 ELSE Min(hitsAt)

\* index of the first string of seq that starts with "riskLevel=", 0 if none
FirstMarker(seq) ==
    LET at == {i \in 1..Len(seq) : HasAt(seq[i], 1, RiskLevelEq)}
    IN  IF at = {} THEN 0 ELSE Min(at)

\* parse_classification_from_result with the two loops exchanged: hits first
parse_classification_hits_first(r) ==
    LET misses == Get(r, "misses")
        hits   == Get(r, "hits")
        m      == FirstMatch(misses)
        h      == FirstMatch(hits)
        f      == FirstMarker(hits)
    IN  IF h # 0 THEN Search(hits[h])
        ELSE IF m # 0 THEN Search(misses[m])
        ELSE IF f # 0 THEN <<SplitEq1(hits[f]), None>>
        ELSE <<None, None>>

\* parse_classification_from_result with a fallback that reads the marker
\* from the misses as well as from the hits
parse_classification_marker_anywhere(r) ==
    LET misses == Get(r, "misses")
        hits   == Get(r, "hits")
        m      == FirstMatch(misses)
        h      == FirstMatch(hits)
        f      == FirstMarker(hits \o misses)
    IN  IF m # 0 THEN Search(misses[m])
        ELSE IF h # 0 THEN Search(hits[h])
        ELSE IF f # 0 THEN <<SplitEq1((hits \o misses)[f]), None>>
        ELSE <<None, None>>

\* parse_classification_from_result with a fallback that takes the marker's
\* label for the expected label too
parse_classification_fallback_agrees(r) ==
    LET misses == Get(r, "misses")
        hits   == Get(r, "hits")
        m      == FirstMatch(misses)
        h      == FirstMatch(hits)
        f      == FirstMarker(hits)
    IN  IF m # 0 THEN Search(misses[m])
        ELSE IF h # 0 THEN Search(hits[h])
        ELSE IF f # 0 THEN <<SplitEq1(hits[f]), SplitEq1(hits[f])>>
        ELSE <<None, None>>

\* parse_classification_from_result that passes over a match with a label
\* outside CLASSES when a later string has a match with both labels in it
parse_classification_first_usable(r) ==
    LET misses == Get(r, "misses")
        hits   == Get(r, "hits")
        all    == misses \o hits
        usable == {i \in 1..Len(all) :
                      /\ Search(all[i]) # <<>>
                      /\ Search(all[i])[1] \in ClassSet
                      /\ Search(all[i])[2] \in ClassSet}
        m      == FirstMatch(misses)
        h      == FirstMatch(hits)
        f      == FirstMarker(hits)
    IN  IF usable # {} THEN Search(all[Min(usable)])
        ELSE IF m # 0 THEN Search(misses[m])
        ELSE IF h # 0 THEN Search(hits[h])
        ELSE IF f # 0 THEN <<SplitEq1(hits[f]), None>>
        ELSE <<None, None>>

\* returns <<ai_class, expected_class>>
parse_classification_from_result(r) ==
    LET misses == Get(r, "misses")
        hits   == Get(r, "hits")
        m      == FirstMatch(misses)
        h      == FirstMatch(hits)
        f      == FirstMarker(hits)
    IN  IF m # 0 THEN Search(misses[m])
        ELSE IF h # 0 THEN Search(hits[h])
        ELSE IF f # 0 THEN <<SplitEq1(hits[f]), None>>
        ELSE <<None, None>>

-----------------------------------------------------------------------------
(* The explanation strings evaluation records carry *)

CommaSpace == <<",", " ">>

\* validate_risk_output: f"Correct: AI={candidate_risk}, Expected={expected_risk}"
CorrectMsg(c, e) ==
    <<"C","o","r","r","e","c","t",":"," ">> \o AiEq \o c \o CommaSpace \o ExpectedEq \o e

\* validate_risk_output: f"Mismatch: AI={candidate_risk}, Expected={expected_risk}"
MismatchMsg(c, e) ==
    <<"M","i","s","m","a","t","c","h",":"," ">> \o AiEq \o c \o CommaSpace \o ExpectedEq \o e

\* validate_risk_output: f"riskLevel={candidate_risk}"
RiskLevelMsg(c) == RiskLevelEq \o c

\* validate_risk_output: "Output is not valid JSON"
NotJsonMsg ==
    <<"O","u","t","p","u","t"," ","i","s"," ","n","o","t"," ",
      "v","a","l","i","d"," ","J","S","O","N">>

\* a hand-written explanation: no comma, and text after the second label
LooseMsg == AiEq \o High \o <<" ">> \o ExpectedEq \o Low \o <<" ","(","m","a","n","u","a","l",")">>

\* the strings the extractor runs draw hits and misses from
StringPool ==
    { MismatchMsg(Low, High), CorrectMsg(High, High), RiskLevelMsg(Medium),
      NotJsonMsg, MismatchMsg(Critical, High), LooseMsg }

\* longest hits / misses list of an extractor run
MaxStrings == 2

RECURSIVE SeqsUpTo(_, _)
SeqsUpTo(S, n) ==
    IF n = 0 THEN {<<>>}
    ELSE LET shorter == SeqsUpTo(S, n - 1)
         IN  shorter \cup {Append(q, x) : q \in {t \in shorter : Len(t) = n - 1}, x \in S}

\* the evaluation records over the pool: hits and misses are each a list of
\* strings or missing; eval_id stands for the fields the engine passes
\* through unexamined
ExtractInputs(lists) ==
    {[eval_id |-> "case"]}
        \cup {[eval_id |-> "case", hits |-> h] : h \in lists}
        \cup {[eval_id |-> "case", misses |-> m] : m \in lists}
        \cup {[eval_id |-> "case", hits |-> h, misses |-> m] : h \in lists, m \in lists}

-----------------------------------------------------------------------------
(* The evaluation records of the metrics runs *)

\* validate_risk_output: "Valid JSON with required keys"
ValidJsonMsg ==
    <<"V","a","l","i","d"," ","J","S","O","N"," ","w","i","t","h"," ",
      "r","e","q","u","i","r","e","d"," ","k","e","y","s">>

\* the records validate_risk_output emits
RecCorrect(c) ==
    [eval_id |-> "case", hits |-> <<ValidJsonMsg, RiskLevelMsg(c), CorrectMsg(c, c)>>,
     misses |-> <<>>]
RecMismatch(c, e) ==
    [eval_id |-> "case", hits |-> <<ValidJsonMsg, RiskLevelMsg(c)>>,
     misses |-> <<MismatchMsg(c, e)>>]
RecNoExpected(c) ==
    [eval_id |-> "case", hits |-> <<ValidJsonMsg, RiskLevelMsg(c)>>, misses |-> <<>>]
RecNotJson ==
    [eval_id |-> "case", hits |-> <<>>, misses |-> <<NotJsonMsg>>]
\* a record of another producer: a label outside the closed set
RecOutOfSet ==
    [eval_id |-> "case", hits |-> <<>>, misses |-> <<MismatchMsg(Critical, High)>>]
\* a record without hits and misses
RecBare == [eval_id |-> "case"]

RecordPool ==
    { RecCorrect(High), RecCorrect(Low), RecMismatch(Low, High),
      RecMismatch(High, Medium), RecNoExpected(Medium), RecNotJson,
      RecOutOfSet, RecBare }

-----------------------------------------------------------------------------
(* validate_risk_output.py: validate_risk_output *)

VALID_RISK_LEVELS == {High, Medium, Low}

\* f"Output is {type(parsed).__name__}, expected object" for a JSON array
NotObjectMsg ==
    <<"O","u","t","p","u","t"," ","i","s"," ","l","i","s","t",","," ",
      "e","x","p","e","c","t","e","d"," ","o","b","j","e","c","t">>

\* f"Missing required keys: {', '.join(missing_keys)}" for a missing reasoning
MissingKeysMsg ==
    <<"M","i","s","s","i","n","g"," ","r","e","q","u","i","r","e","d"," ",
      "k","e","y","s",":"," ","r","e","a","s","o","n","i","n","g">>

\* f"Invalid riskLevel: '{candidate_risk}' (must be High/Medium/Low)"
InvalidLevelMsg(c) ==
    <<"I","n","v","a","l","i","d"," ","r","i","s","k","L","e","v","e","l",":"," ","'">>
    \o c \o
    <<"'"," ","(","m","u","s","t"," ","b","e"," ",
      "H","i","g","h","/","M","e","d","i","u","m","/","L","o","w",")">>

(***************************************************************************)
(* The candidate answer is described by what extract_json_from_response    *)
(* makes of it:                                                            *)
(*   kind "none"    no JSON                                                *)
(*   kind "list"    JSON that is not an object                             *)
(*   kind "dict"    an object; complete says whether it has every          *)
(*                  required key, riskLevel is its risk level              *)
(* expected_risk is what extract_expected_risk_level returns: a label or   *)
(* None.                                                                   *)
(***************************************************************************)
NoJson == [kind |-> "none", complete |-> FALSE, riskLevel |-> None]
NotObject == [kind |-> "list", complete |-> FALSE, riskLevel |-> None]
Incomplete(c) == [kind |-> "dict", complete |-> FALSE, riskLevel |-> c]
Assessment(c) == [kind |-> "dict", complete |-> TRUE, riskLevel |-> c]

\* validate_risk_output with the two labels of the comparison strings
\* exchanged
validate_risk_output_swapped(parsed, expected_risk) ==
    IF parsed.kind = "none" THEN RecNotJson
    ELSE IF parsed.kind # "dict"
    THEN [eval_id |-> "case", hits |-> <<>>, misses |-> <<NotObjectMsg>>]
    ELSE IF ~parsed.complete
    THEN [eval_id |-> "case", hits |-> <<>>, misses |-> <<MissingKeysMsg>>]
    ELSE IF parsed.riskLevel \notin VALID_RISK_LEVELS
    THEN [eval_id |-> "case", hits |-> <<ValidJsonMsg>>,
          misses |-> <<InvalidLevelMsg(parsed.riskLevel)>>]
    ELSE IF expected_risk = None THEN RecNoExpected(parsed.riskLevel)
    ELSE IF parsed.riskLevel = expected_risk THEN RecCorrect(parsed.riskLevel)
    ELSE RecMismatch(expected_risk, parsed.riskLevel)

\* the hits and misses validate_risk_output returns
validate_risk_output(parsed, expected_risk) ==
    IF parsed.kind = "none" THEN RecNotJson
    ELSE IF parsed.kind # "dict"
    THEN [eval_id |-> "case", hits |-> <<>>, misses |-> <<NotObjectMsg>>]
    ELSE IF ~parsed.complete
    THEN [eval_id |-> "case", hits |-> <<>>, misses |-> <<MissingKeysMsg>>]
    ELSE IF parsed.riskLevel \notin VALID_RISK_LEVELS
    THEN [eval_id |-> "case", hits |-> <<ValidJsonMsg>>,
          misses |-> <<InvalidLevelMsg(parsed.riskLevel)>>]
    ELSE IF expected_risk = None THEN RecNoExpected(parsed.riskLevel)
    ELSE IF parsed.riskLevel = expected_risk THEN RecCorrect(parsed.riskLevel)
    ELSE RecMismatch(parsed.riskLevel, expected_risk)

\* the candidate answers and the expected labels of a case
ParsedPool ==
    {NoJson, NotObject, Incomplete(High)}
    \cup {Assessment(c) : c \in ClassSet \cup {Critical}}

ExpectedPool == ClassSet \cup {Critical, None}

\* the records validate_risk_output emits over the pools
ProducedRecords ==
    {validate_risk_output(p, e) : p \in ParsedPool, e \in ExpectedPool}

\* the two records of the worked example
\* {"misses": ["Mismatch: AI=Low, Expected=High"]}
ScenarioMiss == [misses |-> <<MismatchMsg(Low, High)>>]
\* {"hits": ["Correct: AI=High, Expected=High"]}
ScenarioHit == [hits |-> <<CorrectMsg(High, High)>>]

(***************************************************************************)
(* TLC evaluates an operator anew at every use.  ParseTable holds          *)
(* parse_classification_from_result(r) for the records of the pools,       *)
(* evaluated once; Parsed(r) is parse_classification_from_result(r), read  *)
(* from the table where it has the record.                                 *)
(***************************************************************************)
ParseDomain == RecordPool \cup ProducedRecords \cup {ScenarioMiss, ScenarioHit}

ParseTable == [r \in ParseDomain |-> parse_classification_from_result(r)]

Parsed(r) ==
    IF r \in ParseDomain THEN ParseTable[r] ELSE parse_classification_from_result(r)

-----------------------------------------------------------------------------
(* build_confusion_matrix *)

\* the matrix build_confusion_matrix starts from: every cell of the grid at 0
ZeroMatrix == [expected \in ClassSet |-> [predicted \in ClassSet |-> 0]]

\* CountLabels without the test of the predicted label: a label outside
\* CLASSES gets a cell of its own in the row of the expected label
CountLabelsAnyPredicted(m, ai_class, expected_class) ==
    IF Truthy(ai_class) /\ Truthy(expected_class) /\ expected_class \in ClassSet
    THEN [m EXCEPT ![expected_class] =
             [predicted \in DOMAIN m[expected_class] \cup {ai_class} |->
                 IF predicted \notin DOMAIN m[expected_class] THEN 1
                 ELSE IF predicted = ai_class THEN m[expected_class][predicted] + 1
                 ELSE m[expected_class][predicted]]]
    ELSE m

\* CountLabels that marks a cell as seen instead of counting it
CountLabelsSaturates(m, ai_class, expected_class) ==
    IF Truthy(ai_class) /\ Truthy(expected_class)
       /\ expected_class \in ClassSet /\ ai_class \in ClassSet
    THEN [m EXCEPT ![expected_class][ai_class] = 1]
    ELSE m

\* if ai_class and expected_class: if expected_class in CLASSES and
\* ai_class in CLASSES: matrix[expected_class][ai_class] += 1
CountLabels(m, ai_class, expected_class) ==
    IF Truthy(ai_class) /\ Truthy(expected_class)
       /\ expected_class \in ClassSet /\ ai_class \in ClassSet
    THEN [m EXCEPT ![expected_class][ai_class] = @ + 1]
    ELSE m

\* ai_class, expected_class = pair
CountPair(m, pair) == CountLabels(m, pair[1], pair[2])

\* FoldRecord with a record that has no expected label counted as correct
FoldRecordCountsFallback(m, r) ==
    LET pair           == Parsed(r)
        ai_class       == pair[1]
        expected_class == IF Truthy(pair[2]) THEN pair[2] ELSE pair[1]
    IN  IF Truthy(ai_class) /\ Truthy(expected_class)
           /\ expected_class \in ClassSet /\ ai_class \in ClassSet
        THEN [m EXCEPT ![expected_class][ai_class] = @ + 1]
        ELSE m

\* one iteration of the loop over results: the pair is extracted once,
\* unpacked, and counted if both labels are in CLASSES
FoldRecord(m, r) == CountPair(m, Parsed(r))

\* FoldFrom that leaves the loop at the first record it cannot count
RECURSIVE FoldFromBreaks(_, _, _)
FoldFromBreaks(m, rs, i) ==
    IF i > Len(rs) THEN m
    ELSE LET pair == Parsed(rs[i])
         IN  IF pair[1] \in ClassSet /\ pair[2] \in ClassSet
             THEN FoldFromBreaks([m EXCEPT ![pair[2]][pair[1]] = @ + 1], rs, i + 1)
             ELSE m

RECURSIVE FoldFrom(_, _, _)
FoldFrom(m, rs, i) ==
    IF i > Len(rs) THEN m ELSE FoldFrom(FoldRecord(m, rs[i]), rs, i + 1)

build_confusion_matrix(rs) == FoldFrom(ZeroMatrix, rs, 1)

-----------------------------------------------------------------------------
(* Numbers *)

\* round(x, 4): a rounded float is its number of 1/Scale units
Scale == 10000

\* Nearest that rounds towards minus infinity
NearestDown(n, d, up) == n \div d

\* the integer nearest to n/d (d > 0); an exact half goes up iff up
Nearest(n, d, up) ==
    LET q == n \div d
        r == n % d
    IN  IF 2 * r > d THEN q + 1
        ELSE IF 2 * r < d THEN q
        ELSE IF up THEN q + 1 ELSE q

\* Round4 that cuts n/d after 4 decimals
Round4Down(n, d) == (n * Scale) \div d

\* round(n/d, 4) of a float that is exactly n/d: an exact half goes to even
Round4(n, d) == Nearest(n * Scale, d, ((n * Scale) \div d) % 2 = 1)

\* sum(f(i) for i in 1..Len(seq)) over a sequence of integers
RECURSIVE SumSeq(_)
SumSeq(seq) == IF seq = <<>> THEN 0 ELSE Head(seq) + SumSeq(Tail(seq))

\* [x for x in seq if keep[x]]
RECURSIVE Filter(_, _)
Filter(seq, keep) ==
    IF seq = <<>> THEN <<>>
    ELSE IF keep[Head(seq)] THEN <<Head(seq)>> \o Filter(Tail(seq), keep)
    ELSE Filter(Tail(seq), keep)

-----------------------------------------------------------------------------
(* compute_class_metrics, compute_overall_metrics, compute_accuracy *)

(***************************************************************************)
(* precision = tp/(tp+fp) = pn/pd and recall = tp/(tp+fn) = rn/rd are      *)
(* kept as exact fractions (0/1 for the 0.0 of a zero denominator);        *)
(* f1 = 2*precision*recall/(precision+recall)                              *)
(*    = (2*pn*rn)/(pd*rd) / ((pn*rd + rn*pd)/(pd*rd))                      *)
(*    = (2*pn*rn) / (pn*rd + rn*pd).                                       *)
(***************************************************************************)
\* compute_class_metrics with 1.0 for a quotient whose denominator is 0
compute_class_metrics_default_one(m, target_class) ==
    LET others == Filter(CLASSES, [c \in ClassSet |-> c # target_class])
        tp == m[target_class][target_class]
        fp == SumSeq([i \in 1..Len(others) |-> m[others[i]][target_class]])
        fn == SumSeq([i \in 1..Len(others) |-> m[target_class][others[i]]])
        pn == IF tp + fp > 0 THEN tp ELSE 1
        pd == IF tp + fp > 0 THEN tp + fp ELSE 1
        rn == IF tp + fn > 0 THEN tp ELSE 1
        rd == IF tp + fn > 0 THEN tp + fn ELSE 1
        sumPositive == pn * rd + rn * pd > 0
        fnum == IF sumPositive THEN 2 * pn * rn ELSE 0
        fden == IF sumPositive THEN pn * rd + rn * pd ELSE 1
    IN  [ truePositives  |-> tp,
          falsePositives |-> fp,
          falseNegatives |-> fn,
          precision      |-> Round4(pn, pd),
          recall         |-> Round4(rn, rd),
          f1             |-> Round4(fnum, fden) ]

\* compute_class_metrics with rows and columns exchanged: false positives
\* read from the row, false negatives from the column
compute_class_metrics_transposed(m, target_class) ==
    LET others == Filter(CLASSES, [c \in ClassSet |-> c # target_class])
        tp == m[target_class][target_class]
        fp == SumSeq([i \in 1..Len(others) |-> m[target_class][others[i]]])
        fn == SumSeq([i \in 1..Len(others) |-> m[others[i]][target_class]])
        pn == IF tp + fp > 0 THEN tp ELSE 0
        pd == IF tp + fp > 0 THEN tp + fp ELSE 1
        rn == IF tp + fn > 0 THEN tp ELSE 0
        rd == IF tp + fn > 0 THEN tp + fn ELSE 1
        sumPositive == pn * rd + rn * pd > 0
        fnum == IF sumPositive THEN 2 * pn * rn ELSE 0
        fden == IF sumPositive THEN pn * rd + rn * pd ELSE 1
    IN  [ truePositives  |-> tp,
          falsePositives |-> fp,
          falseNegatives |-> fn,
          precision      |-> Round4(pn, pd),
          recall         |-> Round4(rn, rd),
          f1             |-> Round4(fnum, fden) ]

\* compute_class_metrics with the arithmetic mean of precision and recall
\* for f1
compute_class_metrics_arithmetic_mean(m, target_class) ==
    LET others == Filter(CLASSES, [c \in ClassSet |-> c # target_class])
        tp == m[target_class][target_class]
        fp == SumSeq([i \in 1..Len(others) |-> m[others[i]][target_class]])
        fn == SumSeq([i \in 1..Len(others) |-> m[target_class][others[i]]])
        pn == IF tp + fp > 0 THEN tp ELSE 0
        pd == IF tp + fp > 0 THEN tp + fp ELSE 1
        rn == IF tp + fn > 0 THEN tp ELSE 0
        rd == IF tp + fn > 0 THEN tp + fn ELSE 1
        sumPositive == pn * rd + rn * pd > 0
        fnum == IF sumPositive THEN pn * rd + rn * pd ELSE 0
        fden == IF sumPositive THEN 2 * pd * rd ELSE 1
    IN  [ truePositives  |-> tp,
          falsePositives |-> fp,
          falseNegatives |-> fn,
          precision      |-> Round4(pn, pd),
          recall         |-> Round4(rn, rd),
          f1             |-> Round4(fnum, fden) ]

compute_class_metrics(m, target_class) ==
    LET others == Filter(CLASSES, [c \in ClassSet |-> c # target_class])
        tp == m[target_class][target_class]
        fp == SumSeq([i \in 1..Len(others) |-> m[others[i]][target_class]])
        fn == SumSeq([i \in 1..Len(others) |-> m[target_class][others[i]]])
        pn == IF tp + fp > 0 THEN tp ELSE 0
        pd == IF tp + fp > 0 THEN tp + fp ELSE 1
        rn == IF tp + fn > 0 THEN tp ELSE 0
        rd == IF tp + fn > 0 THEN tp + fn ELSE 1
        sumPositive == pn * rd + rn * pd > 0
        fnum == IF sumPositive THEN 2 * pn * rn ELSE 0
        fden == IF sumPositive THEN pn * rd + rn * pd ELSE 1
    IN  [ truePositives  |-> tp,
          falsePositives |-> fp,
          falseNegatives |-> fn,
          precision      |-> Round4(pn, pd),
          recall         |-> Round4(rn, rd),
          f1             |-> Round4(fnum, fden) ]

(***************************************************************************)
(* The macro averages are sum(rounded values)/len(active_classes), rounded *)
(* again.  With two active classes and an odd sum the mean ends in a 5 in  *)
(* the fifth decimal, which no double holds exactly: round() then goes the *)
(* way the double nearest to the mean lies, up for some sums and down for  *)
(* others.  up stands for that side.                                       *)
(***************************************************************************)
\* compute_overall_metrics averaging over every class, supported or not
compute_overall_metrics_all_classes(per_class_metrics, up) ==
    LET n == Len(CLASSES)
        total(field) == SumSeq([i \in 1..n |-> per_class_metrics[CLASSES[i]][field]])
    IN  [ precision |-> Nearest(total("precision"), n, up),
          recall    |-> Nearest(total("recall"), n, up),
          f1        |-> Nearest(total("f1"), n, up) ]

compute_overall_metrics(per_class_metrics, up) ==
    LET active_classes ==
            Filter(CLASSES,
                   [c \in ClassSet |->
                       per_class_metrics[c].truePositives
                       + per_class_metrics[c].falseNegatives > 0])
        n == Len(active_classes)
        total(field) ==
            SumSeq([i \in 1..n |-> per_class_metrics[active_classes[i]][field]])
    IN  IF n = 0
        THEN [precision |-> 0, recall |-> 0, f1 |-> 0]
        ELSE [ precision |-> Nearest(total("precision"), n, up),
               recall    |-> Nearest(total("recall"), n, up),
               f1        |-> Nearest(total("f1"), n, up) ]

\* compute_accuracy that cuts the quotient after 4 decimals instead of
\* rounding it
compute_accuracy_truncated(m) ==
    LET correct == SumSeq([i \in 1..Len(CLASSES) |-> m[CLASSES[i]][CLASSES[i]]])
        total   == SumSeq([i \in 1..Len(CLASSES) |->
                       SumSeq([j \in 1..Len(CLASSES) |-> m[CLASSES[i]][CLASSES[j]]])])
    IN  IF total > 0 THEN (correct * Scale) \div total ELSE 0

compute_accuracy(m) ==
    LET correct == SumSeq([i \in 1..Len(CLASSES) |-> m[CLASSES[i]][CLASSES[i]]])
        total   == SumSeq([i \in 1..Len(CLASSES) |->
                       SumSeq([j \in 1..Len(CLASSES) |-> m[CLASSES[i]][CLASSES[j]]])])
    IN  IF total > 0 THEN Round4(correct, total) ELSE 0

\* MetricsOf with the samples of a class counted down its column (the records
\* predicted to be the class) instead of along its row
MetricsOfColumnCounts(m, up) ==
    LET per_class_metrics == [cls \in ClassSet |-> compute_class_metrics(m, cls)]
        class_counts ==
            [cls \in ClassSet |->
                SumSeq([j \in 1..Len(CLASSES) |-> m[CLASSES[j]][cls]])]
    IN  [ summary |->
            [ totalSamples    |-> SumSeq([i \in 1..Len(CLASSES) |-> class_counts[CLASSES[i]]]),
              samplesPerClass |-> class_counts,
              accuracy        |-> compute_accuracy(m) ],
          confusionMatrix |-> [classes |-> CLASSES, matrix |-> m],
          metricsPerClass |-> per_class_metrics,
          overallMetrics  |-> compute_overall_metrics(per_class_metrics, up) ]

\* compute_metrics from the built matrix on: the value it returns
MetricsOf(m, up) ==
    LET per_class_metrics == [cls \in ClassSet |-> compute_class_metrics(m, cls)]
        class_counts ==
            [cls \in ClassSet |->
                SumSeq([j \in 1..Len(CLASSES) |-> m[cls][CLASSES[j]]])]
    IN  [ summary |->
            [ totalSamples    |-> SumSeq([i \in 1..Len(CLASSES) |-> class_counts[CLASSES[i]]]),
              samplesPerClass |-> class_counts,
              accuracy        |-> compute_accuracy(m) ],
          confusionMatrix |-> [classes |-> CLASSES, matrix |-> m],
          metricsPerClass |-> per_class_metrics,
          overallMetrics  |-> compute_overall_metrics(per_class_metrics, up) ]

\* the value compute_metrics returns when load_results returned no record
NoResults == [error |-> "No results found in file"]

-----------------------------------------------------------------------------
(* load_results *)

(***************************************************************************)
(* A line of the results file is described by what json.loads makes of it: *)
(*   [kind |-> "object", value |-> r]  an evaluation record r              *)
(*   [kind |-> "scalar"]               valid JSON that is no object        *)
(*   [kind |-> "garbage"]              json.loads raises JSONDecodeError   *)
(*   [kind |-> "blank"]                empty once stripped                 *)
(***************************************************************************)
ObjectLine(r) == [kind |-> "object", value |-> r]
ScalarLine == [kind |-> "scalar"]
GarbageLine == [kind |-> "garbage"]
BlankLine == [kind |-> "blank"]

\* what json.loads(line) appends for a scalar line: a value without .get
ScalarValue == [scalar |-> "42"]

IsDict(r) == "scalar" \notin DOMAIN r

\* load_results that stops reading at the first line json.loads rejects
RECURSIVE load_results_stops(_)
load_results_stops(lines) ==
    IF lines = <<>> THEN <<>>
    ELSE LET line == Head(lines)
         IN  IF line.kind = "object" THEN <<line.value>> \o load_results_stops(Tail(lines))
             ELSE IF line.kind = "scalar" THEN <<ScalarValue>> \o load_results_stops(Tail(lines))
             ELSE IF line.kind = "garbage" THEN <<>>
             ELSE load_results_stops(Tail(lines))

RECURSIVE load_results(_)
load_results(lines) ==
    IF lines = <<>> THEN <<>>
    ELSE LET line == Head(lines)
             rest == load_results(Tail(lines))
         IN  IF line.kind = "object" THEN <<line.value>> \o rest
             ELSE IF line.kind = "scalar" THEN <<ScalarValue>> \o rest
             ELSE rest

-----------------------------------------------------------------------------
(* check_threshold *)

\* a threshold is a number of 1/ThresholdScale units, ten to one unit of a
\* rounded float
ThresholdScale == 10 * Scale

\* check_threshold with a strict comparison
check_threshold_strict(m, check_class, threshold, up) ==
    LET per_class     == IF "metricsPerClass" \in DOMAIN m THEN m.metricsPerClass ELSE <<>>
        class_metrics == IF check_class \in DOMAIN per_class THEN per_class[check_class] ELSE <<>>
        actual_f1     == IF "f1" \in DOMAIN class_metrics THEN class_metrics.f1 ELSE 0
        passed        == actual_f1 * (ThresholdScale \div Scale) > threshold
    IN  [ result       |-> IF passed THEN "pass" ELSE "fail",
          checkedClass |-> check_class,
          threshold    |-> threshold,
          actualF1     |-> actual_f1,
          margin       |-> Nearest(actual_f1 * (ThresholdScale \div Scale) - threshold,
                                   ThresholdScale \div Scale, up),
          message      |-> IF passed THEN "PASS" ELSE "FAIL",
          metrics      |-> m ]

\* check_threshold with 1.0 for the F1 of a class that has no entry
check_threshold_default_one(m, check_class, threshold, up) ==
    LET per_class     == IF "metricsPerClass" \in DOMAIN m THEN m.metricsPerClass ELSE <<>>
        class_metrics == IF check_class \in DOMAIN per_class THEN per_class[check_class] ELSE <<>>
        actual_f1     == IF "f1" \in DOMAIN class_metrics THEN class_metrics.f1 ELSE Scale
        passed        == actual_f1 * (ThresholdScale \div Scale) >= threshold
    IN  [ result       |-> IF passed THEN "pass" ELSE "fail",
          checkedClass |-> check_class,
          threshold    |-> threshold,
          actualF1     |-> actual_f1,
          margin       |-> Nearest(actual_f1 * (ThresholdScale \div Scale) - threshold,
                                   ThresholdScale \div Scale, up),
          message      |-> IF passed THEN "PASS" ELSE "FAIL",
          metrics      |-> m ]

\* message is f"PASS: ..." or f"FAIL: ...", kept by its first word
check_threshold(m, check_class, threshold, up) ==
    LET per_class     == IF "metricsPerClass" \in DOMAIN m THEN m.metricsPerClass ELSE <<>>
        class_metrics == IF check_class \in DOMAIN per_class THEN per_class[check_class] ELSE <<>>
        actual_f1     == IF "f1" \in DOMAIN class_metrics THEN class_metrics.f1 ELSE 0
        passed        == actual_f1 * (ThresholdScale \div Scale) >= threshold
    IN  [ result       |-> IF passed THEN "pass" ELSE "fail",
          checkedClass |-> check_class,
          threshold    |-> threshold,
          actualF1     |-> actual_f1,
          margin       |-> Nearest(actual_f1 * (ThresholdScale \div Scale) - threshold,
                                   ThresholdScale \div Scale, up),
          message      |-> IF passed THEN "PASS" ELSE "FAIL",
          metrics      |-> m ]

-----------------------------------------------------------------------------
(* pairwise_tool_compare.py *)

\* a value standing for an exception that left the function; e is str(e)
Raised(e) == [raised |-> e]
IsRaised(v) == "raised" \in DOMAIN v

\* len(set(tools)) needs the distinct elements only
RECURSIVE ToolsOf(_)
\* the tools of one message list, in order
ToolsOf(messages) ==
    IF messages = <<>> THEN <<>>
    ELSE LET msg   == Head(messages)
             calls == IF "toolCalls" \in DOMAIN msg THEN msg.toolCalls ELSE <<>>
             names == [i \in 1..Len(calls) |->
                          IF "tool" \in DOMAIN calls[i] THEN calls[i].tool ELSE "unknown"]
         IN  (IF msg.role = "assistant" /\ calls # <<>> THEN names ELSE <<>>)
             \o ToolsOf(Tail(messages))

\* "not messages" holds for the empty list, which main also passes for a
\* missing field; the summary of no messages has no "unique" entry
extract_tool_summary(messages) ==
    IF messages = <<>>
    THEN [tools |-> <<>>, count |-> 0]
    ELSE LET tools == ToolsOf(messages)
         IN  [ tools  |-> tools,
               count  |-> Len(tools),
               unique |-> {tools[i] : i \in 1..Len(tools)} ]

\* the advantage strings, by their text and the numbers formatted into them
MoreEfficient(mine, theirs) == <<"More efficient", mine, theirs>>
MoreDiverse(types) == <<"More diverse tools", types>>
MoreComprehensive == <<"More comprehensive response">>
BUsedTools == <<"Response B used tools; A did not">>
AUsedTools == <<"Response A used tools; B did not">>

\* Exceeds120 with a length of exactly 120% of the other counted as more
Exceeds120OrEqual(len_a, len_b) == 5 * len_a >= 6 * len_b

\* len_a > len_b * 1.2: the double len_b * 1.2 equals 6 * len_b / 5 exactly
\* whenever that is an integer, so the comparison is the one of integers
Exceeds120(len_a, len_b) == 5 * len_a > 6 * len_b

\* compare_responses with the efficiency advantage given to A when both
\* sides made the same number of tool calls
compare_responses_ties_to_a(response_a, response_b, tools_a, tools_b) ==
    LET a1 == IF tools_a.count <= tools_b.count /\ tools_a.count > 0
              THEN <<MoreEfficient(tools_a.count, tools_b.count)>> ELSE <<>>
        b1 == IF ~(tools_a.count <= tools_b.count /\ tools_a.count > 0)
                 /\ tools_b.count < tools_a.count /\ tools_b.count > 0
              THEN <<MoreEfficient(tools_b.count, tools_a.count)>> ELSE <<>>
        ua == Cardinality(tools_a.unique)
        ub == Cardinality(tools_b.unique)
        a2 == IF ua > ub THEN <<MoreDiverse(ua)>> ELSE <<>>
        b2 == IF ~(ua > ub) /\ ub > ua THEN <<MoreDiverse(ub)>> ELSE <<>>
        len_a == Len(response_a)
        len_b == Len(response_b)
        a3 == IF Exceeds120(len_a, len_b) THEN <<MoreComprehensive>> ELSE <<>>
        b3 == IF ~Exceeds120(len_a, len_b) /\ Exceeds120(len_b, len_a)
              THEN <<MoreComprehensive>> ELSE <<>>
        b4 == IF tools_a.count = 0 /\ tools_b.count > 0 THEN <<BUsedTools>> ELSE <<>>
        a4 == IF ~(tools_a.count = 0 /\ tools_b.count > 0)
                 /\ tools_b.count = 0 /\ tools_a.count > 0
              THEN <<AUsedTools>> ELSE <<>>
        a_advantages == a1 \o a2 \o a3 \o a4
        b_advantages == b1 \o b2 \o b3 \o b4
        a_score == Len(a_advantages)
        b_score == Len(b_advantages)
    IN  IF "unique" \notin DOMAIN tools_a \/ "unique" \notin DOMAIN tools_b
        THEN Raised("'unique'")
        ELSE [ winner       |-> IF a_score > b_score THEN "A"
                                ELSE IF b_score > a_score THEN "B" ELSE "TIE",
               a_advantages |-> a_advantages,
               b_advantages |-> b_advantages ]

compare_responses(response_a, response_b, tools_a, tools_b) ==
    LET a1 == IF tools_a.count < tools_b.count /\ tools_a.count > 0
              THEN <<MoreEfficient(tools_a.count, tools_b.count)>> ELSE <<>>
        b1 == IF ~(tools_a.count < tools_b.count /\ tools_a.count > 0)
                 /\ tools_b.count < tools_a.count /\ tools_b.count > 0
              THEN <<MoreEfficient(tools_b.count, tools_a.count)>> ELSE <<>>
        ua == Cardinality(tools_a.unique)
        ub == Cardinality(tools_b.unique)
        a2 == IF ua > ub THEN <<MoreDiverse(ua)>> ELSE <<>>
        b2 == IF ~(ua > ub) /\ ub > ua THEN <<MoreDiverse(ub)>> ELSE <<>>
        len_a == Len(response_a)
        len_b == Len(response_b)
        a3 == IF Exceeds120(len_a, len_b) THEN <<MoreComprehensive>> ELSE <<>>
        b3 == IF ~Exceeds120(len_a, len_b) /\ Exceeds120(len_b, len_a)
              THEN <<MoreComprehensive>> ELSE <<>>
        b4 == IF tools_a.count = 0 /\ tools_b.count > 0 THEN <<BUsedTools>> ELSE <<>>
        a4 == IF ~(tools_a.count = 0 /\ tools_b.count > 0)
                 /\ tools_b.count = 0 /\ tools_a.count > 0
              THEN <<AUsedTools>> ELSE <<>>
        a_advantages == a1 \o a2 \o a3 \o a4
        b_advantages == b1 \o b2 \o b3 \o b4
        a_score == Len(a_advantages)
        b_score == Len(b_advantages)
    IN  IF "unique" \notin DOMAIN tools_a \/ "unique" \notin DOMAIN tools_b
        THEN Raised("'unique'")
        ELSE [ winner       |-> IF a_score > b_score THEN "A"
                                ELSE IF b_score > a_score THEN "B" ELSE "TIE",
               a_advantages |-> a_advantages,
               b_advantages |-> b_advantages ]

\* pass2_mapped without the exchange of A and B
pass2_not_mapped(winner) == winner

\* {"A": "B", "B": "A", "TIE": "TIE"}.get(winner, "TIE")
pass2_mapped(winner) ==
    CASE winner = "A" -> "B"
      [] winner = "B" -> "A"
      [] OTHER -> "TIE"

\* final_verdict with the score from the reference's side: 1.0 when B wins
final_verdict_reference_view(pass1_winner, pass2_winner) ==
    LET mapped       == pass2_mapped(pass2_winner)
        consistent   == pass1_winner = mapped
        final_winner == IF consistent THEN pass1_winner ELSE "TIE"
    IN  [ pass1      |-> pass1_winner,
          pass2      |-> pass2_winner,
          mapped     |-> mapped,
          consistent |-> consistent,
          final      |-> final_winner,
          confidence |-> IF consistent THEN "high" ELSE "low (position bias detected)",
          score      |-> IF final_winner = "B" THEN Scale
                         ELSE IF final_winner = "A" THEN 0
                         ELSE Scale \div 2 ]

\* the consistency check and the score, from the winners of the two passes
final_verdict(pass1_winner, pass2_winner) ==
    LET mapped       == pass2_mapped(pass2_winner)
        consistent   == pass1_winner = mapped
        final_winner == IF consistent THEN pass1_winner ELSE "TIE"
    IN  [ pass1      |-> pass1_winner,
          pass2      |-> pass2_winner,
          mapped     |-> mapped,
          consistent |-> consistent,
          final      |-> final_winner,
          confidence |-> IF consistent THEN "high" ELSE "low (position bias detected)",
          score      |-> IF final_winner = "A" THEN Scale
                         ELSE IF final_winner = "B" THEN 0
                         ELSE Scale \div 2 ]

\* hits = pass1["a_advantages"][:4]
HitCap == 4

\* Take with a cap two entries short of the one asked for
TakeShort(seq, n) == SubSeq(seq, 1, IF Len(seq) < n - 2 THEN Len(seq) ELSE n - 2)

Take(seq, n) == SubSeq(seq, 1, IF Len(seq) < n THEN Len(seq) ELSE n)

\* reasoning is the record of the values its f-string formats
pairwise_with_bias_mitigation(candidate, reference, candidate_tools, reference_tools) ==
    LET pass1 == compare_responses(candidate, reference, candidate_tools, reference_tools)
        pass2 == compare_responses(reference, candidate, reference_tools, candidate_tools)
        v     == final_verdict(pass1.winner, pass2.winner)
    IN  IF IsRaised(pass1) THEN pass1
        ELSE IF IsRaised(pass2) THEN pass2
        ELSE [ score     |-> v.score,
               hits      |-> Take(pass1.a_advantages, HitCap),
               misses    |-> Take(pass1.b_advantages, HitCap),
               reasoning |-> [ pass1      |-> v.pass1,
                               pass2      |-> v.pass2,
                               mapped     |-> v.mapped,
                               consistent |-> v.consistent,
                               final      |-> v.final,
                               confidence |-> v.confidence ] ]

\* input_data.get(key, default)
GetOr(d, key, default) == IF key \in DOMAIN d THEN d[key] ELSE default

NoReferenceResult ==
    [ score     |-> Scale \div 2,
      hits      |-> << <<"Candidate response provided">> >>,
      misses    |-> << <<"No reference for comparison">> >>,
      reasoning |-> "Pairwise comparison requires reference_answer field" ]

ErrorResult(e) ==
    [ score     |-> 0,
      hits      |-> <<>>,
      misses    |-> << <<"Evaluator error", e>> >>,
      reasoning |-> <<"Evaluation failed", e>> ]

\* main without the check for a reference: it compares against nothing
MainComparesAnyway(stdin) ==
    LET candidate == GetOr(stdin, "candidate_answer", <<>>)
        reference == GetOr(stdin, "reference_answer", <<>>)
        output_messages    == GetOr(stdin, "output_messages", <<>>)
        reference_messages == GetOr(stdin, "reference_output_messages", <<>>)
        res == pairwise_with_bias_mitigation(
                   candidate, reference,
                   extract_tool_summary(output_messages),
                   extract_tool_summary(reference_messages))
    IN  IF "garbage" \in DOMAIN stdin
        THEN [printed |-> ErrorResult("JSONDecodeError"), exit |-> 1]
        ELSE IF IsRaised(res)
        THEN [printed |-> ErrorResult(res.raised), exit |-> 1]
        ELSE [printed |-> res, exit |-> 0]

\* main: what it prints and the exit code it ends with.  stdin that
\* json.loads rejects is the record [garbage |-> TRUE].
Main(stdin) ==
    LET candidate == GetOr(stdin, "candidate_answer", <<>>)
        reference == GetOr(stdin, "reference_answer", <<>>)
        output_messages    == GetOr(stdin, "output_messages", <<>>)
        reference_messages == GetOr(stdin, "reference_output_messages", <<>>)
        res == pairwise_with_bias_mitigation(
                   candidate, reference,
                   extract_tool_summary(output_messages),
                   extract_tool_summary(reference_messages))
    IN  IF "garbage" \in DOMAIN stdin
        THEN [printed |-> ErrorResult("JSONDecodeError"), exit |-> 1]
        ELSE IF ~Truthy(reference)
        THEN [printed |-> NoReferenceResult, exit |-> 0]
        ELSE IF IsRaised(res)
        THEN [printed |-> ErrorResult(res.raised), exit |-> 1]
        ELSE [printed |-> res, exit |-> 0]

-----------------------------------------------------------------------------
(* The inputs of the metrics runs *)

LinePool ==
    {ObjectLine(r) : r \in RecordPool} \cup {ScalarLine, GarbageLine, BlankLine}

\* longest results file of a metrics run
MaxLines == 3

\* largest cell of the matrices handed to the calculators directly
MaxCell == 1

\* thresholds, in 1/ThresholdScale units: 0, 0.66665, 0.6667, 0.66672, 0.95,
\* 1.0: the caller's float has any number of decimals, here one more than a
\* rounded F1, just below and just above the F1 0.6667
ThresholdPool == {0, 66665, 66670, 66672, 95000, 100000}

-----------------------------------------------------------------------------
(* The inputs of the pairwise runs *)

\* a response of n characters
Text(n) == [i \in 1..n |-> "x"]

\* lengths of the responses: empty, and 5, 6, 7 around the 120% of 5
ResponseLengths == {0, 5, 6, 7}

\* most tool calls of one assistant message
MaxCalls == 2

\* a tool call names its tool or does not
CallPool == {[tool |-> "search"], [tool |-> "fetch"], [id |-> "call"]}

AssistantMsg(calls) == [role |-> "assistant", toolCalls |-> calls]
UserMsg == [role |-> "user", toolCalls |-> <<[tool |-> "fetch"]>>]
PlainMsg == [role |-> "assistant"]

\* the message lists: none, one message without calls, one assistant message
\* with calls, and a user message and two assistant messages
TracePool ==
    LET callLists == SeqsUpTo(CallPool, MaxCalls) \ {<<>>}
    IN  {<<>>, <<PlainMsg>>}
        \cup {<<AssistantMsg(c)>> : c \in callLists}
        \cup {<<UserMsg, AssistantMsg(<<[tool |-> "search"]>>), AssistantMsg(c)>> :
                 c \in callLists}

\* the objects on stdin: the reference answer and either message list may be
\* missing
PairwiseInputs(traces) ==
    LET withRef ==
            {[candidate_answer |-> Text(c), reference_answer |-> Text(r)] :
                 c \in ResponseLengths, r \in ResponseLengths}
            \cup {[candidate_answer |-> Text(c)] : c \in ResponseLengths}
        withCand ==
            withRef \cup
            {[f \in DOMAIN o \cup {"output_messages"} |->
                 IF f = "output_messages" THEN t ELSE o[f]] :
                 o \in withRef, t \in traces}
    IN  withCand \cup
        {[f \in DOMAIN o \cup {"reference_output_messages"} |->
             IF f = "reference_output_messages" THEN t ELSE o[f]] :
             o \in withCand, t \in traces}
        \cup {[garbage |-> TRUE]}

-----------------------------------------------------------------------------
(* Values of the variables a run does not use *)

IdleExtract == result = <<>> /\ labels = <<>>
IdleMetrics ==
    /\ fileLines = <<>> /\ results = <<>> /\ idx = 0
    /\ matrix = <<>> /\ metrics = <<>> /\ verdict = <<>>
IdlePairwise == input = <<>> /\ output = <<>>

-----------------------------------------------------------------------------
(* Extractor run: one record through parse_classification_from_result *)

InitExtract ==
    /\ pc = "extract"
    /\ result \in ExtractInputs(SeqsUpTo(StringPool, MaxStrings))
    /\ labels = <<>>
    /\ IdleMetrics /\ IdlePairwise
    /\ exitCode = None

Extract ==
    /\ pc = "extract"
    /\ labels' = parse_classification_from_result(result)
    /\ pc' = "extracted"
    /\ UNCHANGED <<result, fileLines, results, idx, matrix, metrics, verdict,
                   input, output, exitCode>>

NextExtract == Extract

SpecExtract == InitExtract /\ [][NextExtract]_vars

-----------------------------------------------------------------------------
(* Metrics run: compute_metrics on a results file, then the gate on its    *)
(* output                                                                  *)

Init ==
    /\ pc = "load"
    /\ fileLines \in SeqsUpTo(LinePool, MaxLines)
    /\ results = <<>> /\ idx = 0 /\ matrix = <<>> /\ metrics = <<>> /\ verdict = <<>>
    /\ IdleExtract /\ IdlePairwise
    /\ exitCode = None

\* compute_metrics up to the call of build_confusion_matrix
Load ==
    /\ pc = "load"
    /\ results' = load_results(fileLines)
    /\ IF results' = <<>>
       THEN /\ metrics' = NoResults
            /\ matrix' = matrix
            /\ pc' = "gate"
       ELSE /\ metrics' = metrics
            /\ matrix' = ZeroMatrix
            /\ pc' = "fold"
    /\ UNCHANGED <<result, labels, fileLines, idx, verdict, input, output, exitCode>>

\* build_confusion_matrix: one iteration of its loop
FoldStep ==
    /\ pc = "fold"
    /\ idx < Len(results)
    /\ IF IsDict(results[idx + 1])
       THEN /\ matrix' = FoldRecord(matrix, results[idx + 1])
            /\ idx' = idx + 1
            /\ pc' = pc
       ELSE \* result.get raises AttributeError, which nothing catches
            /\ UNCHANGED <<matrix, idx>>
            /\ pc' = "crashed"
    /\ UNCHANGED <<result, labels, fileLines, results, metrics, verdict,
                   input, output, exitCode>>

\* compute_metrics after build_confusion_matrix returned
Finish ==
    /\ pc = "fold"
    /\ idx = Len(results)
    /\ \E up \in BOOLEAN : metrics' = MetricsOf(matrix, up)
    /\ pc' = "gate"
    /\ UNCHANGED <<result, labels, fileLines, results, idx, matrix, verdict,
                   input, output, exitCode>>

\* check_threshold on the metrics, for a class and a threshold of the caller
CheckThreshold ==
    /\ pc = "gate"
    /\ \E check_class \in ClassSet, threshold \in ThresholdPool, up \in BOOLEAN :
          verdict' = check_threshold(metrics, check_class, threshold, up)
    /\ pc' = "done"
    /\ UNCHANGED <<result, labels, fileLines, results, idx, matrix, metrics,
                   input, output, exitCode>>

Next == Load \/ FoldStep \/ Finish \/ CheckThreshold

Spec == Init /\ [][Next]_vars

-----------------------------------------------------------------------------
(* Calculator run: the calculators and the gate on any matrix *)

\* a matrix of a long run with one class almost never predicted rightly: one
\* true positive of High among 4 * Scale predictions of High
SkewedMatrices ==
    {[ZeroMatrix EXCEPT ![High][High] = 1, ![Low][High] = 4 * Scale - 1]}

InitMatrix ==
    /\ pc = "matrix"
    /\ matrix \in [ClassSet -> [ClassSet -> 0..MaxCell]] \cup SkewedMatrices
    /\ fileLines = <<>> /\ results = <<>> /\ idx = 0 /\ metrics = <<>> /\ verdict = <<>>
    /\ IdleExtract /\ IdlePairwise
    /\ exitCode = None

Calculate ==
    /\ pc = "matrix"
    /\ \E up \in BOOLEAN : metrics' = MetricsOf(matrix, up)
    /\ pc' = "gate"
    /\ UNCHANGED <<result, labels, fileLines, results, idx, matrix, verdict,
                   input, output, exitCode>>

NextMatrix == Calculate \/ CheckThreshold

SpecMatrix == InitMatrix /\ [][NextMatrix]_vars

-----------------------------------------------------------------------------
(* Pairwise run: main of pairwise_tool_compare.py on one stdin *)

InitPairwise ==
    /\ pc = "start"
    /\ input \in PairwiseInputs(TracePool)
    /\ output = <<>>
    /\ exitCode = None
    /\ IdleExtract /\ IdleMetrics

RunMain ==
    /\ pc = "start"
    /\ output' = Main(input).printed
    /\ exitCode' = Main(input).exit
    /\ pc' = "exited"
    /\ UNCHANGED <<result, labels, fileLines, results, idx, matrix, metrics,
                   verdict, input>>

NextPairwise == RunMain

SpecPairwise == InitPairwise /\ [][NextPairwise]_vars

-----------------------------------------------------------------------------
(* Properties of the metrics run *)

\* sum of every cell of a matrix over the closed class set
CellSum(m) ==
    SumSeq([k \in 1..(Len(CLASSES) * Len(CLASSES)) |->
               m[CLASSES[((k - 1) \div Len(CLASSES)) + 1]][CLASSES[((k - 1) % Len(CLASSES)) + 1]]])

\* the extracted pair of r has both labels in the closed class set
BothInSet(r) == Parsed(r)[1] \in ClassSet /\ Parsed(r)[2] \in ClassSet

\* the fold is running or has returned
Folding == pc \in {"fold", "gate"} /\ results # <<>>

\* C1: once build_confusion_matrix has folded the first idx records, the sum
\* of all cells is the number of those records whose extracted (predicted,
\* expected) pair has both labels in the closed class set; a record with an
\* absent or out-of-set label adds nothing to any cell.
C1_CellSumCountsUsablePairs ==
    Folding =>
        /\ CellSum(matrix) = Cardinality({i \in 1..idx : BothInSet(results[i])})
        /\ \A i \in 1..idx :
               ~BothInSet(results[i]) => FoldRecord(matrix, results[i]) = matrix

\* C1 witness: a fold that has returned over usable and unusable records
C1_Witness ==
    /\ pc = "gate" /\ results # <<>> /\ idx = Len(results)
    /\ \E i, j, k \in 1..Len(results) :
          /\ BothInSet(results[i])
          /\ Parsed(results[j])[2] = None
          /\ Parsed(results[k])[1] = Critical
    /\ CellSum(matrix) = 1

\* the permutations of 1..n
Perms(n) == {f \in [1..n -> 1..n] : \A i, j \in 1..n : f[i] = f[j] => i = j}

\* C2: when the fold has returned, folding any permutation of the same
\* records gives the same matrix, cell by cell.
C2_FoldOrderIndependent ==
    (pc = "gate" /\ results # <<>> /\ \A i \in 1..Len(results) : IsDict(results[i])) =>
        \A f \in Perms(Len(results)) :
            build_confusion_matrix([i \in 1..Len(results) |-> results[f[i]]]) = matrix

\* C2 witness: a returned fold of three records, two of them filling
\* different cells and one filling none
C2_Witness ==
    /\ pc = "gate" /\ Len(results) = 3 /\ idx = 3
    /\ BothInSet(results[1]) /\ ~BothInSet(results[2]) /\ BothInSet(results[3])
    /\ Parsed(results[1]) # Parsed(results[3])
    /\ CellSum(matrix) = 2

-----------------------------------------------------------------------------
(* Properties of the calculators and the gate *)

Abs(x) == IF x < 0 THEN -x ELSE x

RECURSIVE SetSum(_, _)
\* sum of f[x] over the finite set S
SetSum(f, S) ==
    IF S = {} THEN 0
    ELSE LET x == CHOOSE y \in S : TRUE IN f[x] + SetSum(f, S \ {x})

\* counts read off the matrix: row c holds the records expected to be c,
\* column c those predicted to be c
RowSum(m, c) == SetSum(m[c], ClassSet)
ColSum(m, c) == SetSum([o \in ClassSet |-> m[o][c]], ClassSet)

\* v, a number of 1/Scale units, is num/den to the 4 decimals the code reports
IsRounded(v, num, den) == 2 * Abs(v * den - num * Scale) <= den

\* the calculators have returned, and the gate has not run yet
Calculated == pc = "gate" /\ "metricsPerClass" \in DOMAIN metrics

\* C3: check_threshold returns 'pass' exactly when the F1 of the checked
\* class is greater than or equal to the threshold, so an F1 equal to the
\* threshold passes and any F1 below it fails.
C3_ThresholdInclusive ==
    (pc = "done" /\ "metricsPerClass" \in DOMAIN metrics) =>
        LET f1 == metrics.metricsPerClass[verdict.checkedClass].f1
        IN  /\ verdict.actualF1 = f1
            /\ verdict.result \in {"pass", "fail"}
            /\ verdict.result = "pass" <=> f1 * ThresholdScale >= verdict.threshold * Scale

\* C3 witness: a verdict for a non-zero F1 that equals the threshold
C3_Witness ==
    /\ pc = "done" /\ "metricsPerClass" \in DOMAIN metrics
    /\ verdict.actualF1 > 0
    /\ verdict.actualF1 * ThresholdScale = verdict.threshold * Scale
    /\ verdict.result = "pass"

\* C4: for every matrix and class, precision, recall and f1 lie in [0,1],
\* and each is 0.0 when its denominator (TP+FP, TP+FN, precision+recall) is
\* zero, the all-zero matrix included.
C4_MetricsInUnitInterval ==
    Calculated =>
        \A c \in ClassSet :
            LET cm == metrics.metricsPerClass[c]
            IN  /\ cm.precision \in 0..Scale
                /\ cm.recall \in 0..Scale
                /\ cm.f1 \in 0..Scale
                /\ ColSum(matrix, c) = 0 => cm.precision = 0
                /\ RowSum(matrix, c) = 0 => cm.recall = 0
                /\ (cm.precision + cm.recall = 0 \/ matrix[c][c] = 0) => cm.f1 = 0

\* C4 witness: the metrics of the all-zero matrix, all 0.0
C4_Witness ==
    /\ pc = "gate" /\ matrix = ZeroMatrix
    /\ \A c \in ClassSet :
           /\ metrics.metricsPerClass[c].precision = 0
           /\ metrics.metricsPerClass[c].recall = 0
           /\ metrics.metricsPerClass[c].f1 = 0

\* the classes with support, read off the matrix
Supported(m) == {c \in ClassSet : RowSum(m, c) > 0}

\* C5: each macro value is the arithmetic mean (to the 4 decimals reported)
\* of the per-class values over the classes with support TP+FN > 0 only; a
\* class without support, false positives or not, is in neither the sum nor
\* the count, and without any supported class the three values are 0.0.
C5_MacroOverSupportedClasses ==
    Calculated =>
        LET active == Supported(matrix)
            n      == Cardinality(active)
            sum(field) == SetSum([c \in ClassSet |-> metrics.metricsPerClass[c][field]], active)
        IN  \A field \in {"precision", "recall", "f1"} :
                IF n = 0
                THEN metrics.overallMetrics[field] = 0
                ELSE 2 * Abs(n * metrics.overallMetrics[field] - sum(field)) <= n

\* C5 witness: two supported classes with a non-zero mean, and a class
\* without support that has false positives
C5_Witness ==
    /\ pc = "gate"
    /\ Cardinality(Supported(matrix)) = 2
    /\ \E c \in ClassSet : RowSum(matrix, c) = 0 /\ ColSum(matrix, c) > 0
    /\ \E c, d \in Supported(matrix) :
           /\ metrics.metricsPerClass[c].precision # metrics.metricsPerClass[d].precision
           /\ 2 * metrics.overallMetrics.precision
                  = metrics.metricsPerClass[c].precision + metrics.metricsPerClass[d].precision
    /\ metrics.overallMetrics.f1 > 0

\* C10: for every matrix and class c, truePositives = matrix[c][c],
\* falsePositives = sum of matrix[o][c] over o # c, falseNegatives = sum of
\* matrix[c][o] over o # c; precision = TP/(TP+FP), recall = TP/(TP+FN) and
\* f1 = 2*precision*recall/(precision+recall), to the 4 decimals reported
\* and 0 on a zero denominator; each class's result is a function of the
\* matrix alone, and the matrix is the one handed in.
C10_ClassMetricsDefinition ==
    Calculated =>
        /\ metrics.confusionMatrix.matrix = matrix
        /\ \A c \in ClassSet :
            LET cm == metrics.metricsPerClass[c]
                tp == matrix[c][c]
                fp == ColSum(matrix, c) - matrix[c][c]
                fn == RowSum(matrix, c) - matrix[c][c]
            IN  /\ cm.truePositives = tp
                /\ cm.falsePositives = fp
                /\ cm.falseNegatives = fn
                /\ IF tp + fp = 0 THEN cm.precision = 0
                   ELSE IsRounded(cm.precision, tp, tp + fp)
                /\ IF tp + fn = 0 THEN cm.recall = 0
                   ELSE IsRounded(cm.recall, tp, tp + fn)
                \* with P = tp/(tp+fp) and R = tp/(tp+fn), P + R = 0 iff tp = 0,
                \* and 2PR/(P+R) = 2*tp*tp / (tp*(tp+fn) + tp*(tp+fp))
                /\ IF tp = 0 THEN cm.f1 = 0
                   ELSE IsRounded(cm.f1, 2 * tp * tp, tp * (tp + fn) + tp * (tp + fp))

\* C10 witness: a class with TP = 1, FP = 2, FN = 1: precision 0.3333,
\* recall 0.5, f1 0.4
C10_Witness ==
    /\ pc = "gate"
    /\ \E c \in ClassSet :
           /\ matrix[c][c] = 1
           /\ ColSum(matrix, c) = 3
           /\ RowSum(matrix, c) = 2
           /\ metrics.metricsPerClass[c].precision = 3333
           /\ metrics.metricsPerClass[c].recall = 5000
           /\ metrics.metricsPerClass[c].f1 = 4000

-----------------------------------------------------------------------------
(* Properties of the extractor run *)

\* C9: the extractor returns the pair of the first string the pattern
\* matches when all misses are scanned in order and only then all hits in
\* order; a record with a matching miss and a matching hit yields the miss's
\* pair, and no string after the first match has any influence.
C9_MissThenHitPriority ==
    pc = "extracted" =>
        LET all      == Get(result, "misses") \o Get(result, "hits")
            matching == {i \in 1..Len(all) : Search(all[i]) # <<>>}
        IN  matching # {} => labels = Search(all[Min(matching)])

\* C9 witness: the second miss and the first hit match with different
\* pairs, and the miss's pair is returned
C9_Witness ==
    /\ pc = "extracted"
    /\ "misses" \in DOMAIN result /\ "hits" \in DOMAIN result
    /\ Len(result.misses) = 2 /\ Len(result.hits) = 2
    /\ Search(result.misses[1]) = <<>>
    /\ Search(result.misses[2]) = <<Low, High>>
    /\ Search(result.hits[1]) = <<High, High>>
    /\ labels = <<Low, High>>

-----------------------------------------------------------------------------
(* Properties of the pairwise run *)

Winners == {"A", "B", "TIE"}

\* the winner of pass 2 in the terms of pass 1: A and B exchanged
Remap(w) == IF w = "A" THEN "B" ELSE IF w = "B" THEN "A" ELSE w

\* the score of a final winner: the candidate is A
ScoreOf(w) == IF w = "A" THEN Scale ELSE IF w = "B" THEN 0 ELSE Scale \div 2

\* the fields main reads from stdin
InCandidate == GetOr(input, "candidate_answer", <<>>)
InReference == GetOr(input, "reference_answer", <<>>)
InCandidateTools == extract_tool_summary(GetOr(input, "output_messages", <<>>))
InReferenceTools == extract_tool_summary(GetOr(input, "reference_output_messages", <<>>))

\* main has printed the result of a comparison
Compared ==
    /\ pc = "exited" /\ exitCode = 0
    /\ "garbage" \notin DOMAIN input /\ Truthy(InReference)

\* C6: the final winner is pass 1's winner with high confidence when it
\* equals pass 2's winner remapped (A and B exchanged, Tie unchanged), and
\* otherwise Tie with low confidence whatever the passes returned; the score
\* is 1.0 for the candidate, 0.0 for the reference and 0.5 for any tie.  The
\* rule is stated for every pair of pass winners and for the winners of the
\* two passes of every run.
C6_VerdictRule ==
    /\ \A w1, w2 \in Winners :
           LET v == final_verdict(w1, w2)
           IN  /\ v.final = IF w1 = Remap(w2) THEN w1 ELSE "TIE"
               /\ v.confidence = IF w1 = Remap(w2) THEN "high"
                                 ELSE "low (position bias detected)"
               /\ v.score = ScoreOf(v.final)
    /\ Compared =>
           LET p1 == compare_responses(InCandidate, InReference,
                                       InCandidateTools, InReferenceTools).winner
               p2 == compare_responses(InReference, InCandidate,
                                       InReferenceTools, InCandidateTools).winner
               r  == output.reasoning
           IN  /\ r.pass1 = p1 /\ r.pass2 = p2
               /\ r.final = IF p1 = Remap(p2) THEN p1 ELSE "TIE"
               /\ r.confidence = IF p1 = Remap(p2) THEN "high"
                                 ELSE "low (position bias detected)"
               /\ output.score = ScoreOf(r.final)

\* C6 witness: pass 1 names A, pass 2 names B, and the candidate wins with
\* high confidence and score 1.0
C6_Witness ==
    /\ Compared
    /\ output.reasoning.pass1 = "A" /\ output.reasoning.pass2 = "B"
    /\ output.reasoning.final = "A" /\ output.reasoning.confidence = "high"
    /\ output.score = Scale

\* C7: with a non-empty reference response the run completes both passes
\* and returns the rubric's score for any pair of tool traces, an empty or
\* missing trace included; it never ends in the evaluator-error result.
C7_EmptyTraceIsCompared ==
    (pc = "exited" /\ "garbage" \notin DOMAIN input /\ Truthy(InReference)) =>
        /\ exitCode = 0
        /\ output.score \in {Scale, Scale \div 2, 0}
        /\ output.reasoning.pass1 \in Winners /\ output.reasoning.pass2 \in Winners

\* C8: without a reference response (absent or empty) no rubric pass runs:
\* the run prints the neutral score 0.5 with the miss that no reference is
\* available, whatever the candidate response and the tool traces are, and
\* exits normally.
C8_NoReferenceNeutral ==
    (pc = "exited" /\ "garbage" \notin DOMAIN input /\ ~Truthy(InReference)) =>
        /\ exitCode = 0
        /\ output.score = Scale \div 2
        /\ output.misses = << <<"No reference for comparison">> >>
        /\ output.hits = << <<"Candidate response provided">> >>
        /\ output.reasoning = "Pairwise comparison requires reference_answer field"

\* C8 witness: no reference_answer field, a candidate response and tool
\* calls on both sides, and the neutral result
C8_Witness ==
    /\ pc = "exited" /\ exitCode = 0
    /\ "reference_answer" \notin DOMAIN input
    /\ Len(InCandidate) > 0
    /\ "unique" \in DOMAIN InCandidateTools /\ InCandidateTools.count > 0
    /\ "unique" \in DOMAIN InReferenceTools /\ InReferenceTools.count > 0
    /\ output.score = Scale \div 2

-----------------------------------------------------------------------------
(* Properties of the support of a class *)

\* the metrics run has returned metrics computed from a folded matrix
Returned == pc = "gate" /\ results # <<>> /\ "metricsPerClass" \in DOMAIN metrics

\* the loaded records whose extracted expected label is c
ExpectedIs(c) == {i \in 1..Len(results) : Parsed(results[i])[2] = c}

\* C11: for every class c, the support used for macro-averaging is
\* TP(c) + FN(c), it is the samplesPerClass entry of c, and it equals the
\* number of loaded records whose extracted pair has expected label c and a
\* predicted label in the closed class set.
C11_SupportCountsUsableExpected ==
    Returned =>
        \A c \in ClassSet :
            LET cm == metrics.metricsPerClass[c]
            IN  /\ metrics.summary.samplesPerClass[c]
                       = cm.truePositives + cm.falseNegatives
                /\ metrics.summary.samplesPerClass[c]
                       = Cardinality({i \in ExpectedIs(c) : BothInSet(results[i])})

\* C11 witness: class High has one counted record and one record expected
\* to be High whose predicted label is outside the closed set
C11_Witness ==
    /\ Returned
    /\ metrics.summary.samplesPerClass[High] = 1
    /\ \E i, j \in ExpectedIs(High) :
          /\ BothInSet(results[i])
          /\ Parsed(results[j])[1] = Critical

\* C11 as stated: samplesPerClass[c] is the number of loaded records whose
\* expected label is c, whatever their predicted label
C11_SupportCountsEveryExpected ==
    Returned =>
        \A c \in ClassSet :
            LET cm == metrics.metricsPerClass[c]
            IN  /\ metrics.summary.samplesPerClass[c]
                       = cm.truePositives + cm.falseNegatives
                /\ metrics.summary.samplesPerClass[c] = Cardinality(ExpectedIs(c))

-----------------------------------------------------------------------------
(* Properties of a run without usable records *)

\* no loaded record has a pair with both labels in the closed class set
NoUsableRecords == \A i \in 1..Len(results) : ~BothInSet(results[i])

\* every calculated value of the metrics m is zero
AllZeroMetrics(m) ==
    /\ m.confusionMatrix.matrix = ZeroMatrix
    /\ m.summary.accuracy = 0
    /\ \A c \in ClassSet :
          /\ m.metricsPerClass[c].precision = 0
          /\ m.metricsPerClass[c].recall = 0
          /\ m.metricsPerClass[c].f1 = 0
    /\ m.overallMetrics = [precision |-> 0, recall |-> 0, f1 |-> 0]

\* C12: a run with zero usable records (no record at all, or only records
\* without a usable label pair) returns all-zero metrics and no error value,
\* and the gate applied to what it returned gives a failing verdict.
C12_EmptyRunGivesZeroMetrics ==
    (pc \in {"gate", "done"} /\ NoUsableRecords) =>
        /\ "error" \notin DOMAIN metrics
        /\ AllZeroMetrics(metrics)
        /\ pc = "done" => verdict.result = "fail"

-----------------------------------------------------------------------------
(* ci_check.py: load_metrics, run_eval and main *)

(***************************************************************************)
(* The text of an aggregator file is described by what json.loads makes of *)
(* it:                                                                     *)
(*   [kind |-> "garbage"]             json.loads raises JSONDecodeError    *)
(*   [kind |-> "object"]              a JSON object: iterating it yields   *)
(*                                    its keys, which have no .get         *)
(*   [kind |-> "array", items |-> s]  an array of aggregator results       *)
(***************************************************************************)
GarbageContent == [kind |-> "garbage", items |-> <<>>]
ObjectContent == [kind |-> "object", items |-> <<>>]
ArrayContent(items) == [kind |-> "array", items |-> items]

\* item.get("type") == "confusion-matrix"
IsConfusionMatrix(item) ==
    IF "type" \in DOMAIN item THEN item.type = "confusion-matrix" ELSE FALSE

RECURSIVE load_metrics(_)
load_metrics(content) ==
    IF content.kind = "garbage"
    THEN [error |-> "Failed to parse aggregator JSON"]
    ELSE IF content.kind = "object"
    THEN Raised("'str' object has no attribute 'get'")
    ELSE IF content.items = <<>>
    THEN [error |-> "No confusion-matrix aggregator found in results"]
    ELSE IF IsConfusionMatrix(Head(content.items))
    THEN Head(content.items)
    ELSE load_metrics(ArrayContent(Tail(content.items)))

-----------------------------------------------------------------------------
(* The inputs of the gate runs *)

\* matrices of a batch without a Low record and without a correct Medium one
GateMatrices ==
    {[expected \in ClassSet |->
         [predicted \in ClassSet |->
             IF expected = High THEN high[predicted]
             ELSE IF expected = Medium /\ predicted = High THEN missed
             ELSE 0]] :
        high \in [ClassSet -> 0..MaxCell], missed \in 0..MaxCell}

\* the metricsPerClass maps of those matrices
PerClassPool ==
    {[c \in ClassSet |-> compute_class_metrics(m, c)] : m \in GateMatrices}

\* entries of the aggregator array
ConfusionMatrixItem(per_class) ==
    [type |-> "confusion-matrix", metricsPerClass |-> per_class]
BareConfusionMatrixItem == [type |-> "confusion-matrix"]
FailedConfusionMatrixItem == [type |-> "confusion-matrix", error |-> "aggregation failed"]
OtherItem == [type |-> "latency"]
UntypedItem == [name |-> "summary"]

\* the confusion-matrix entries: with every class, without class High,
\* without any class, without metricsPerClass, and one carrying an error
ConfusionMatrixItems ==
    {ConfusionMatrixItem(p) : p \in PerClassPool}
    \cup {ConfusionMatrixItem([c \in ClassSet \ {High} |-> p[c]]) : p \in PerClassPool}
    \cup {ConfusionMatrixItem(<<>>), BareConfusionMatrixItem, FailedConfusionMatrixItem}

ContentPool ==
    {GarbageContent, ObjectContent, ArrayContent(<<>>),
     ArrayContent(<<OtherItem>>), ArrayContent(<<UntypedItem, OtherItem>>)}
    \cup {ArrayContent(<<i>>) : i \in ConfusionMatrixItems}
    \cup {ArrayContent(<<OtherItem, i, BareConfusionMatrixItem>>) : i \in ConfusionMatrixItems}

(***************************************************************************)
(* The command line and what it meets on the machine:                      *)
(*   eval_file, aggregator_file  "none" (not given), "missing" (given, no  *)
(*                               such file) or "present"                   *)
(*   run      how run_eval ends: "ok", "nonzero" (agentv returned          *)
(*            non-zero), "no_bun" (FileNotFoundError) or "no_file" (no     *)
(*            aggregator file produced)                                    *)
(*   content  the text of the aggregator file                              *)
(***************************************************************************)
Args(eval_file, aggregator_file, run, content) ==
    {[eval_file |-> eval_file, aggregator_file |-> aggregator_file, run |-> run,
      content |-> content, threshold |-> t, check_class |-> c, to_file |-> o] :
        t \in ThresholdPool, c \in ClassSet, o \in BOOLEAN}

GateInputs(contents) ==
    Args("none", "none", "ok", GarbageContent)
    \cup Args("missing", "present", "ok", GarbageContent)
    \cup Args("none", "missing", "ok", GarbageContent)
    \cup UNION {Args("present", "none", r, GarbageContent) :
                    r \in {"nonzero", "no_bun", "no_file"}}
    \cup UNION {Args("present", "none", "ok", c) : c \in contents}
    \cup UNION {Args("none", "present", "ok", c) : c \in contents}

-----------------------------------------------------------------------------
(* Gate run: main of ci_check.py on one command line *)

\* what main has written: the documents printed to stdout and those
\* written to the --output file
NothingWritten == [stdout |-> <<>>, file |-> <<>>]

\* the documents of a run that wrote one JSON document
OneDocument(output_json) == <<output_json>>

InitGate ==
    /\ pc = "ci_args"
    /\ input \in GateInputs(ContentPool)
    /\ output = NothingWritten
    /\ exitCode = None
    /\ metrics = <<>> /\ verdict = <<>>
    /\ fileLines = <<>> /\ results = <<>> /\ idx = 0 /\ matrix = <<>>
    /\ IdleExtract

\* main: "Determine aggregator file", run_eval included
ResolveFile ==
    /\ pc = "ci_args"
    /\ LET found ==
               IF input.eval_file # "none"
               THEN input.eval_file = "present" /\ input.run = "ok"
               ELSE input.aggregator_file = "present"
       IN  IF found
           THEN pc' = "ci_load" /\ exitCode' = exitCode
           ELSE pc' = "ci_exited" /\ exitCode' = 1
    /\ UNCHANGED <<result, labels, fileLines, results, idx, matrix, metrics,
                   verdict, input, output>>

\* main: load_metrics and the exit on an error value; an exception that
\* nothing catches ends the interpreter with status 1
LoadMetrics ==
    /\ pc = "ci_load"
    /\ metrics' = load_metrics(input.content)
    /\ IF IsRaised(metrics') \/ "error" \in DOMAIN metrics'
       THEN pc' = "ci_exited" /\ exitCode' = 1
       ELSE pc' = "ci_gate" /\ exitCode' = exitCode
    /\ UNCHANGED <<result, labels, fileLines, results, idx, matrix, verdict,
                   input, output>>

\* Gate that exits 0 once the verdict is written, whatever its result
GateExitsZero ==
    /\ pc = "ci_gate"
    /\ \E up \in BOOLEAN :
          verdict' = check_threshold(metrics, input.check_class, input.threshold, up)
    /\ output' = IF input.to_file
                 THEN [stdout |-> <<>>, file |-> OneDocument(verdict')]
                 ELSE [stdout |-> OneDocument(verdict'), file |-> <<>>]
    /\ exitCode' = 0
    /\ pc' = "ci_exited"
    /\ UNCHANGED <<result, labels, fileLines, results, idx, matrix, metrics, input>>

\* main: check_threshold, the verdict JSON and the exit code
Gate ==
    /\ pc = "ci_gate"
    /\ \E up \in BOOLEAN :
          verdict' = check_threshold(metrics, input.check_class, input.threshold, up)
    /\ output' = IF input.to_file
                 THEN [stdout |-> <<>>, file |-> OneDocument(verdict')]
                 ELSE [stdout |-> OneDocument(verdict'), file |-> <<>>]
    /\ exitCode' = IF verdict'.result = "pass" THEN 0 ELSE 1
    /\ pc' = "ci_exited"
    /\ UNCHANGED <<result, labels, fileLines, results, idx, matrix, metrics, input>>

NextGate == ResolveFile \/ LoadMetrics \/ Gate

SpecGate == InitGate /\ [][NextGate]_vars

-----------------------------------------------------------------------------
(* Properties of the gate run *)

\* main has computed a verdict and written it
GateRan == pc = "ci_exited" /\ output # NothingWritten

\* the loaded metrics have no entry for the checked class
NoEntry ==
    IF "metricsPerClass" \in DOMAIN metrics
    THEN input.check_class \notin DOMAIN metrics.metricsPerClass
    ELSE TRUE

\* C13: for a class that has no entry in the supplied metrics,
\* check_threshold returns a verdict with actualF1 = 0.0 for every threshold
\* in [0,1]; the verdict is 'fail' for every threshold above 0 and 'pass' at
\* threshold 0, which an F1 of 0.0 meets.
C13_AbsentClassIsZero ==
    (GateRan /\ NoEntry) =>
        /\ verdict.actualF1 = 0
        /\ verdict.checkedClass = input.check_class
        /\ verdict.result = IF input.threshold > 0 THEN "fail" ELSE "pass"

\* C13 witness: the metrics have entries for Low and Medium only, the gate
\* checked High against a threshold above 0 and failed
C13_Witness ==
    /\ GateRan /\ NoEntry
    /\ "metricsPerClass" \in DOMAIN metrics
    /\ DOMAIN metrics.metricsPerClass = ClassSet \ {High}
    /\ input.threshold > 0
    /\ verdict.actualF1 = 0 /\ verdict.result = "fail"
    /\ exitCode = 1

\* C13 as stated: the verdict for a class without an entry is 'fail' for
\* every threshold in [0,1]
C13_AbsentClassAlwaysFails ==
    (GateRan /\ NoEntry) =>
        /\ verdict.actualF1 = 0
        /\ verdict.result = "fail"

-----------------------------------------------------------------------------
(* Properties of the loader *)

\* the lines of the file on which json.loads raises JSONDecodeError
IsBad == [l \in LinePool |-> l.kind = "garbage"]

\* the file with those lines removed
GoodLines == Filter(fileLines, [l \in LinePool |-> ~IsBad[l]])

\* C14: a line that json.loads rejects is skipped and every other record is
\* kept in order, wherever the line stands: the loaded records, the matrix
\* and the metrics of the run are those of the file with the rejected lines
\* removed, and the run does not stop at such a line.
C14_BadLinesAreSkipped ==
    /\ pc \in {"fold", "gate", "crashed"} =>
           /\ results = load_results(GoodLines)
           /\ Len(results) = Cardinality({i \in 1..Len(GoodLines) :
                                              GoodLines[i].kind # "blank"})
    /\ pc = "crashed" => \E i \in 1..Len(GoodLines) : GoodLines[i].kind = "scalar"
    /\ Folding => matrix = FoldFrom(ZeroMatrix, SubSeq(load_results(GoodLines), 1, idx), 1)
    /\ (pc = "gate" /\ results # <<>>) =>
           \E up \in BOOLEAN :
               metrics = MetricsOf(build_confusion_matrix(load_results(GoodLines)), up)

\* C14 witness: a rejected line between two records that fill different
\* cells, both counted
C14_Witness ==
    /\ pc = "gate" /\ Len(fileLines) = 3
    /\ fileLines[2] = GarbageLine
    /\ Len(results) = 2
    /\ BothInSet(results[1]) /\ BothInSet(results[2])
    /\ Parsed(results[1]) # Parsed(results[2])
    /\ CellSum(matrix) = 2
    /\ metrics.summary.totalSamples = 2

-----------------------------------------------------------------------------
(* Properties of the extractor on records without a classification *)

\* no miss and no hit of the record carries the pattern, and no hit starts
\* with the fallback marker
Unrecognizable(r) ==
    /\ \A i \in 1..Len(Get(r, "misses")) : Search(Get(r, "misses")[i]) = <<>>
    /\ \A i \in 1..Len(Get(r, "hits")) :
          /\ Search(Get(r, "hits")[i]) = <<>>
          /\ ~HasAt(Get(r, "hits")[i], 1, RiskLevelEq)

\* a matrix with a count in every cell
FullMatrix == [expected \in ClassSet |-> [predicted \in ClassSet |-> 1]]

\* C15: for every record whose hits and misses are lists of strings, either
\* possibly missing, the extractor returns a pair; when no string carries
\* the pattern or the fallback marker the pair is (None, None), and the
\* loop of build_confusion_matrix leaves every cell as it was for that
\* record.
C15_ExtractionNeverRaises ==
    pc = "extracted" =>
        /\ Len(labels) = 2
        /\ labels[2] = None \/ (labels[2] # <<>> /\ \A i \in 1..Len(labels[2]) :
                                                     labels[2][i] \in WordChar)
        /\ Unrecognizable(result) =>
               /\ labels = <<None, None>>
               /\ FoldRecord(ZeroMatrix, result) = ZeroMatrix
               /\ FoldRecord(FullMatrix, result) = FullMatrix

\* C15 witness: a record with two misses and a hit, none of them
\* recognizable, for which the extractor returned (None, None)
C15_Witness ==
    /\ pc = "extracted"
    /\ "misses" \in DOMAIN result /\ "hits" \in DOMAIN result
    /\ Len(result.misses) = 2 /\ Len(result.hits) = 1
    /\ Unrecognizable(result)
    /\ labels = <<None, None>>

-----------------------------------------------------------------------------
(* Properties of the accuracy *)

\* sum of the diagonal cells
DiagonalSum(m) == SetSum([c \in ClassSet |-> m[c][c]], ClassSet)

\* C16: the accuracy is the sum of the diagonal cells divided by the sum of
\* all cells, to the 4 decimals the code reports, 0.0 when the sum of all
\* cells is 0, and always within [0,1].
C16_AccuracyDefinition ==
    Calculated =>
        LET accuracy == metrics.summary.accuracy
            total    == CellSum(matrix)
        IN  /\ accuracy \in 0..Scale
            /\ total = 0 => accuracy = 0
            /\ total > 0 => IsRounded(accuracy, DiagonalSum(matrix), total)
            /\ (total > 0 /\ DiagonalSum(matrix) = total) => accuracy = Scale
            /\ (total > 0 /\ DiagonalSum(matrix) = 0) => accuracy = 0

\* C16 witness: two of three counted records are on the diagonal, and the
\* accuracy is reported as 0.6667
C16_Witness ==
    /\ Calculated
    /\ CellSum(matrix) = 3 /\ DiagonalSum(matrix) = 2
    /\ metrics.summary.accuracy = 6667

-----------------------------------------------------------------------------
(* Properties of one pass of the rubric *)

\* x is one of the strings of the list seq
Has(seq, x) == \E i \in 1..Len(seq) : seq[i] = x

\* the number of the conditions of the set S that hold
CountTrue(S) == Cardinality({i \in DOMAIN S : S[i]})

\* C18: in the first pass of a run (A the candidate, B the reference) the
\* efficiency advantage goes to the side with strictly fewer tool calls and
\* only if that side made at least one; the diversity advantage to the side
\* with strictly more distinct tool types; the length advantage to a side
\* whose response is strictly longer than 120% of the other's, a response
\* of exactly 120% earning nothing; the tool-usage advantage to the side
\* that used a tool when the other used none.  No other advantage is
\* awarded, and the pass winner is the side with strictly more advantages,
\* else TIE.
C18_RubricSemantics ==
    Compared =>
        LET ca == InCandidateTools.count
            cb == InReferenceTools.count
            ua == Cardinality(InCandidateTools.unique)
            ub == Cardinality(InReferenceTools.unique)
            la == Len(InCandidate)
            lb == Len(InReference)
            a  == output.hits
            b  == output.misses
            aWins == <<ca < cb /\ ca > 0, ua > ub, 5 * la > 6 * lb, cb = 0 /\ ca > 0>>
            bWins == <<cb < ca /\ cb > 0, ub > ua, 5 * lb > 6 * la, ca = 0 /\ cb > 0>>
        IN  /\ Has(a, MoreEfficient(ca, cb)) <=> aWins[1]
            /\ Has(b, MoreEfficient(cb, ca)) <=> bWins[1]
            /\ Has(a, MoreDiverse(ua)) <=> aWins[2]
            /\ Has(b, MoreDiverse(ub)) <=> bWins[2]
            /\ Has(a, MoreComprehensive) <=> aWins[3]
            /\ Has(b, MoreComprehensive) <=> bWins[3]
            /\ Has(a, AUsedTools) <=> aWins[4]
            /\ Has(b, BUsedTools) <=> bWins[4]
            /\ Len(a) = CountTrue(aWins)
            /\ Len(b) = CountTrue(bWins)
            /\ output.reasoning.pass1 =
                   IF Len(a) > Len(b) THEN "A"
                   ELSE IF Len(b) > Len(a) THEN "B" ELSE "TIE"

\* C18 witness: the candidate made one call of one tool, the reference two
\* calls of two tools, and the candidate's response is exactly 120% of the
\* reference's: one advantage each and no length advantage, a TIE
C18_Witness ==
    /\ Compared
    /\ InCandidateTools.count = 1 /\ InReferenceTools.count = 2
    /\ Cardinality(InReferenceTools.unique) = 2
    /\ Len(InCandidate) = 6 /\ Len(InReference) = 5
    /\ output.hits = <<MoreEfficient(1, 2)>>
    /\ output.misses = <<MoreDiverse(2)>>
    /\ output.reasoning.pass1 = "TIE"

-----------------------------------------------------------------------------
(* Round-trip run: validate_risk_output emits a record, the extractor      *)
(* reads it, and one iteration of build_confusion_matrix counts it         *)

\* input.counted is the matrix of the records counted before this one
InitRoundTrip ==
    /\ pc = "produce"
    /\ input \in {[parsed |-> p, expected_risk |-> e, counted |-> m] :
                     p \in ParsedPool, e \in ExpectedPool, m \in GateMatrices}
    /\ matrix = input.counted
    /\ result = <<>> /\ labels = <<>>
    /\ fileLines = <<>> /\ results = <<>> /\ idx = 0 /\ metrics = <<>> /\ verdict = <<>>
    /\ output = <<>>
    /\ exitCode = None

Produce ==
    /\ pc = "produce"
    /\ result' = validate_risk_output(input.parsed, input.expected_risk)
    /\ pc' = "extract"
    /\ UNCHANGED <<labels, fileLines, results, idx, matrix, metrics, verdict,
                   input, output, exitCode>>

\* build_confusion_matrix: the iteration of its loop for the record
Count ==
    /\ pc = "extracted"
    /\ matrix' = FoldRecord(matrix, result)
    /\ pc' = "counted"
    /\ UNCHANGED <<result, labels, fileLines, results, idx, metrics, verdict,
                   input, output, exitCode>>

NextRoundTrip == Produce \/ Extract \/ Count

SpecRoundTrip == InitRoundTrip /\ [][NextRoundTrip]_vars

-----------------------------------------------------------------------------
(* Properties of the round trip *)

\* the case has a valid assessment and an expected label
Compares ==
    /\ input.parsed.kind = "dict" /\ input.parsed.complete
    /\ input.parsed.riskLevel \in VALID_RISK_LEVELS
    /\ input.expected_risk # None

\* C19: for every candidate label c and expected label e of the closed set,
\* the record validate_risk_output emits for (c, e) is read back by the
\* extractor as predicted = c and expected = e, and counting it adds one to
\* cell matrix[e][c] and to no other cell; the record emitted when there is
\* no expected label changes no cell.
C19_ProducerExtractorRoundTrip ==
    /\ (pc \in {"extracted", "counted"} /\ Compares) =>
           labels = <<input.parsed.riskLevel, input.expected_risk>>
    /\ (pc = "counted" /\ Compares /\ input.expected_risk \in ClassSet) =>
           matrix = [input.counted EXCEPT
                        ![input.expected_risk][input.parsed.riskLevel] = @ + 1]
    /\ (pc \in {"extracted", "counted"} /\ input.expected_risk = None) =>
           labels[2] = None
    /\ (pc = "counted" /\ input.expected_risk = None) => matrix = input.counted

\* C19 witness: the candidate said Low, High was expected, and the record
\* was counted in cell matrix[High][Low] next to earlier counts
C19_Witness ==
    /\ pc = "counted"
    /\ input.parsed = Assessment(Low) /\ input.expected_risk = High
    /\ result.misses = <<MismatchMsg(Low, High)>>
    /\ labels = <<Low, High>>
    /\ input.counted[High][Low] = 1
    /\ matrix[High][Low] = 2

-----------------------------------------------------------------------------
(* Scenario run: compute_metrics and the gate on the two records of the    *)
(* worked example, with lines the loader drops around them                 *)

ScenarioLines ==
    {ObjectLine(ScenarioMiss), ObjectLine(ScenarioHit), GarbageLine, BlankLine}

InitScenario ==
    /\ pc = "load"
    /\ fileLines \in SeqsUpTo(ScenarioLines, MaxLines)
    /\ results = <<>> /\ idx = 0 /\ matrix = <<>> /\ metrics = <<>> /\ verdict = <<>>
    /\ IdleExtract /\ IdlePairwise
    /\ exitCode = None

SpecScenario == InitScenario /\ [][Next]_vars

\* the run loaded the two records of the example, in its order
ExampleLoaded ==
    pc \in {"gate", "done"} /\ results = <<ScenarioMiss, ScenarioHit>>

\* C20: the records [{misses: ['Mismatch: AI=Low, Expected=High']},
\* {hits: ['Correct: AI=High, Expected=High']}] give a matrix whose only
\* non-zero cells are matrix[High][Low] = 1 and matrix[High][High] = 1;
\* class High has precision 1.0, recall 0.5 and f1 0.6667; the gate for
\* class High at threshold 0.95 fails with margin -0.2833.
C20_EndToEndScenario ==
    ExampleLoaded =>
        /\ matrix = [ZeroMatrix EXCEPT ![High][Low] = 1, ![High][High] = 1]
        /\ metrics.confusionMatrix.matrix = matrix
        /\ metrics.metricsPerClass[High].precision = Scale
        /\ metrics.metricsPerClass[High].recall = Scale \div 2
        /\ metrics.metricsPerClass[High].f1 = 6667
        /\ (pc = "done" /\ verdict.checkedClass = High /\ verdict.threshold = 95000) =>
               /\ verdict.result = "fail"
               /\ verdict.actualF1 = 6667
               /\ verdict.margin = -2833

\* C20 witness: the gate has run for class High at threshold 0.95 on the
\* metrics of the two records and failed with margin -0.2833
C20_Witness ==
    /\ ExampleLoaded /\ pc = "done"
    /\ fileLines = <<ObjectLine(ScenarioMiss), ObjectLine(ScenarioHit)>>
    /\ verdict.checkedClass = High /\ verdict.threshold = 95000
    /\ verdict.result = "fail" /\ verdict.margin = -2833

-----------------------------------------------------------------------------
(* Sharded accumulation *)

\* most shards a record sequence is split into
MaxShards == 2

\* the cell by cell sum of two matrices
MatrixSum(a, b) ==
    [expected \in ClassSet |-> [predicted \in ClassSet |->
        a[expected][predicted] + b[expected][predicted]]]

\* the sub-sequence of rs a shard owns: the records the split assigns to it,
\* in their order
RECURSIVE ShardOf(_, _, _, _)
ShardOf(rs, split, shard, i) ==
    IF i > Len(rs) THEN <<>>
    ELSE (IF split[i] = shard THEN <<rs[i]>> ELSE <<>>)
         \o ShardOf(rs, split, shard, i + 1)

\* each shard folded into its own fresh matrix, the partial matrices summed
RECURSIVE SumOfShards(_, _, _)
SumOfShards(rs, split, shard) ==
    IF shard = 0 THEN ZeroMatrix
    ELSE MatrixSum(SumOfShards(rs, split, shard - 1),
                   build_confusion_matrix(ShardOf(rs, split, shard, 1)))

\* the fold over the whole sequence has returned
FoldReturned ==
    pc = "gate" /\ results # <<>> /\ idx = Len(results)

\* C21: for every split of the record sequence into sub-sequences, folding
\* each sub-sequence into its own fresh matrix with build_confusion_matrix
\* and summing the partial matrices cell by cell gives the matrix of the
\* fold over the whole sequence.
C21_ShardedAccumulation ==
    FoldReturned =>
        \A split \in [1..Len(results) -> 1..MaxShards] :
            SumOfShards(results, split, MaxShards) = matrix

\* C21 witness: a returned fold of three countable records, the first and
\* the last filling the same cell, so that a split puts two increments of
\* one cell in different shards
C21_Witness ==
    /\ FoldReturned /\ Len(results) = 3
    /\ \A i \in 1..3 : BothInSet(results[i])
    /\ Parsed(results[1]) = Parsed(results[3])
    /\ Parsed(results[2]) # Parsed(results[1])
    /\ matrix[Parsed(results[1])[2]][Parsed(results[1])[1]] = 2
    /\ CellSum(matrix) = 3

-----------------------------------------------------------------------------
(* The shape of the matrix during the fold *)

\* one cell for each (expected, predicted) combination of the closed class
\* set, each a non-negative integer
Shape(m) ==
    /\ DOMAIN m = ClassSet
    /\ \A expected \in ClassSet : DOMAIN m[expected] = ClassSet
    /\ \A expected, predicted \in ClassSet : m[expected][predicted] \in Nat
    /\ Cardinality({<<expected, predicted>> : expected \in DOMAIN m, predicted \in ClassSet})
           = Len(CLASSES) * Len(CLASSES)

\* after is before, or before with exactly one cell larger by exactly one
SameOrOneMore(before, after) ==
    \/ after = before
    \/ \E expected, predicted \in ClassSet :
           after = [before EXCEPT ![expected][predicted] = @ + 1]

\* C22: at every step of the fold of build_confusion_matrix the matrix has
\* exactly one cell for each of the n*n (expected, predicted) combinations of
\* the closed class set and every cell is a non-negative integer; processing
\* one record leaves the matrix unchanged or increases exactly one cell by
\* exactly one: no cell decreases, no key is added or removed.
C22_MatrixShapeDuringFold ==
    [][ /\ pc = "fold" => Shape(matrix)
        /\ pc' = "fold" => Shape(matrix')
        /\ FoldStep => SameOrOneMore(matrix, matrix') ]_vars

\* C22 witness: the fold has processed three records: two of them increased
\* a cell, one left the matrix unchanged
C22_Witness ==
    /\ pc = "fold" /\ Len(results) = 3 /\ idx = 3
    /\ Cardinality({i \in 1..3 : BothInSet(results[i])}) = 2
    /\ Shape(matrix)
    /\ CellSum(matrix) = 2

-----------------------------------------------------------------------------
(* The fallback of the extractor *)

\* no miss and no hit of the record carries the pattern, and a hit starts
\* with the marker
TookFallback ==
    /\ pc \in {"extracted", "counted"}
    /\ FirstMatch(Get(result, "misses")) = 0
    /\ FirstMatch(Get(result, "hits")) = 0
    /\ FirstMarker(Get(result, "hits")) # 0

\* the first hit of the record that starts with the marker
MarkerHit == Get(result, "hits")[FirstMarker(Get(result, "hits"))]

\* C23: when no miss or hit carries the 'AI=..., Expected=...' pattern but a
\* hit starts with the 'riskLevel=' marker, the extractor returns the
\* marker's label as predicted and leaves expected absent, and counting the
\* record changes no cell of the matrix, whatever the label.
C23_FallbackNeverCounts ==
    TookFallback =>
        /\ RiskLevelMsg(labels[1]) = MarkerHit
        /\ labels[2] = None
        /\ pc = "counted" => matrix = input.counted

\* C23 witness: the record of an assessment of High without an expected
\* label went through the fallback and was counted into a matrix that
\* already had a count for High, which stayed as it was
C23_Witness ==
    /\ TookFallback /\ pc = "counted"
    /\ input.parsed = Assessment(High) /\ input.expected_risk = None
    /\ MarkerHit = RiskLevelMsg(High)
    /\ labels = <<High, None>>
    /\ input.counted[High][High] = 1
    /\ matrix = input.counted

-----------------------------------------------------------------------------
(* The advantage lists of a rubric pass *)

\* the checks of the rubric, by the advantage each awards
Checks == {"More efficient", "More diverse tools", "More comprehensive response",
           "used tools"}

\* the check an advantage string comes from
CheckOf(advantage) ==
    IF advantage \in {AUsedTools, BUsedTools} THEN "used tools" ELSE advantage[1]

\* the entries of a list of advantages that come from a check
From(advantages, check) ==
    {i \in 1..Len(advantages) : CheckOf(advantages[i]) = check}

\* a pass awards the advantage of each check to at most one side, once
AtMostOneSide(pass) ==
    /\ \A check \in Checks :
           Cardinality(From(pass.a_advantages, check))
               + Cardinality(From(pass.b_advantages, check)) <= 1
    /\ \A i \in 1..Len(pass.a_advantages) : CheckOf(pass.a_advantages[i]) \in Checks
    /\ \A i \in 1..Len(pass.b_advantages) : CheckOf(pass.b_advantages[i]) \in Checks

\* the two passes of the run
Pass1 == compare_responses(InCandidate, InReference, InCandidateTools, InReferenceTools)
Pass2 == compare_responses(InReference, InCandidate, InReferenceTools, InCandidateTools)

\* the lists of a pass hold at most one string per check, each at most the
\* cap of the report
WithinCap(pass) ==
    /\ AtMostOneSide(pass)
    /\ Len(pass.a_advantages) + Len(pass.b_advantages) <= Cardinality(Checks)
    /\ Len(pass.a_advantages) <= HitCap /\ Len(pass.b_advantages) <= HitCap

\* the report carries the whole advantage lists of the pass
ReportsAll(pass) ==
    /\ output.hits = pass.a_advantages
    /\ output.misses = pass.b_advantages

\* C24: in every rubric pass each of the four checks awards its advantage to
\* at most one side and never to both, so the advantage lists of A and B
\* together hold at most 4 strings and each holds at most 4; the reported
\* hits and misses, capped at 4 entries, are the whole advantage lists of
\* pass 1, never a truncation of them.
C24_AdvantagesWithinCap ==
    Compared => WithinCap(Pass1) /\ WithinCap(Pass2) /\ ReportsAll(Pass1)

\* C24 witness: the candidate used two tools and wrote the longer response,
\* the reference used none: three advantages for the candidate, all reported
C24_Witness ==
    /\ Compared
    /\ InReferenceTools.count = 0
    /\ output.hits = <<MoreDiverse(2), MoreComprehensive, AUsedTools>>
    /\ output.misses = <<>>

-----------------------------------------------------------------------------
(* Faults inside a run *)

\* the result main of pairwise_tool_compare.py prints for a fault: score 0.0,
\* no hits, one miss naming the error
IsErrorResult(printed) ==
    /\ printed.score = 0
    /\ printed.hits = <<>>
    /\ Len(printed.misses) = 1
    /\ printed.misses[1][1] = "Evaluator error"
    /\ printed = ErrorResult(printed.misses[1][2])

\* a pairwise run that met a fault printed the error result and no verdict
PairwiseFaultSurfaced ==
    (pc = "exited" /\ exitCode # 0) => IsErrorResult(output)

\* C25: a fault raised inside a component's computation is surfaced as a
\* structured error result and never propagates as an unhandled fault: the
\* pairwise run then prints exactly one result (score 0.0, empty hits, one
\* miss naming the error) and no verdict, and the metrics run ends with a
\* result for every content of the results file.
C25_FaultsSurfaceAsResults ==
    /\ PairwiseFaultSurfaced
    /\ pc # "crashed"

-----------------------------------------------------------------------------
(* Position symmetry of the rubric *)

\* the second pass awards each side as many advantages as the first pass
\* awarded it in the other position
Mirrored(pass1, pass2) ==
    /\ Len(pass1.a_advantages) = Len(pass2.b_advantages)
    /\ Len(pass1.b_advantages) = Len(pass2.a_advantages)
    /\ pass2_mapped(pass2.winner) = pass1.winner

\* C26: the advantages awarded to A in compare_responses(x, y) are as many
\* as those awarded to B in compare_responses(y, x) and the other way
\* round, so the remapped winner of pass 2 equals the winner of pass 1: no
\* run of pairwise_with_bias_mitigation takes the inconsistent branch, and
\* the final winner is the winner of pass 1.
C26_RubricPositionSymmetric ==
    Compared =>
        /\ Mirrored(Pass1, Pass2)
        /\ output.reasoning.mapped = output.reasoning.pass1
        /\ output.reasoning.consistent
        /\ output.reasoning.confidence = "high"
        /\ output.reasoning.final = output.reasoning.pass1
        /\ output.score = ScoreOf(output.reasoning.pass1)

\* C26 witness: the two sides differ in calls, tool types and length; the
\* reference wins pass 1 as B and pass 2 as A, and the run reports it
C26_Witness ==
    /\ Compared
    /\ output.hits = <<MoreEfficient(1, 2)>>
    /\ output.misses = <<MoreDiverse(2), MoreComprehensive>>
    /\ output.reasoning.pass1 = "B" /\ output.reasoning.pass2 = "A"
    /\ output.reasoning.consistent
    /\ output.score = 0

-----------------------------------------------------------------------------
(* One side used tools, the other none *)

\* the lists a side without tool calls can be awarded: nothing, or the
\* length advantage alone
LengthAtMost == {<<>>, <<MoreComprehensive>>}

\* C27: when exactly one side made at least one tool call and the other made
\* none, both summaries being well-formed, the side that used tools gets the
\* diversity and the tool-usage advantages and the other side at most the
\* length advantage, so the side that used tools wins for every pair of
\* response lengths: score 1.0 if it is the candidate, 0.0 if it is the
\* reference.
C27_ToolUserWins ==
    /\ (Compared /\ InCandidateTools.count > 0 /\ InReferenceTools.count = 0) =>
           /\ Has(output.hits, MoreDiverse(Cardinality(InCandidateTools.unique)))
           /\ Has(output.hits, AUsedTools)
           /\ output.misses \in LengthAtMost
           /\ output.reasoning.final = "A"
           /\ output.score = Scale
    /\ (Compared /\ InReferenceTools.count > 0 /\ InCandidateTools.count = 0) =>
           /\ Has(output.misses, MoreDiverse(Cardinality(InReferenceTools.unique)))
           /\ Has(output.misses, BUsedTools)
           /\ output.hits \in LengthAtMost
           /\ output.reasoning.final = "B"
           /\ output.score = 0

\* C27 witness: the candidate made no tool call but wrote the longer
\* response, the reference made one call: the reference wins two to one
C27_Witness ==
    /\ Compared
    /\ InCandidateTools.count = 0 /\ InReferenceTools.count = 1
    /\ Len(InCandidate) = 7 /\ Len(InReference) = 5
    /\ output.hits = <<MoreComprehensive>>
    /\ output.misses = <<MoreDiverse(1), BUsedTools>>
    /\ output.score = 0

-----------------------------------------------------------------------------
(* The sign of the reported margin *)

\* check_threshold has returned a verdict on calculated metrics
Judged == pc = "done" /\ "metricsPerClass" \in DOMAIN metrics

\* actualF1 - threshold, in 1/ThresholdScale units
Difference == verdict.actualF1 * (ThresholdScale \div Scale) - verdict.threshold

\* C28 as stated: the verdict is 'pass' exactly when the reported margin
\* (actualF1 - threshold rounded to 4 decimal places) is greater than or
\* equal to 0, and 'fail' exactly when the reported margin is strictly
\* negative.
C28_VerdictIsSignOfMargin ==
    Judged =>
        /\ verdict.result = "pass" <=> verdict.margin >= 0
        /\ verdict.result = "fail" <=> verdict.margin < 0

\* C28: the verdict is 'pass' exactly when actualF1 - threshold, before it
\* is rounded, is greater than or equal to 0; the reported margin is that
\* difference rounded to 4 decimal places, so a 'pass' has a margin >= 0 and
\* a negative margin is a 'fail', while a 'fail' by less than half a unit of
\* the fourth decimal is reported with a margin of zero.
C28_VerdictAndMarginSign ==
    Judged =>
        /\ verdict.result \in {"pass", "fail"}
        /\ verdict.result = "pass" <=> Difference >= 0
        /\ 2 * Abs(verdict.margin * (ThresholdScale \div Scale) - Difference)
               <= ThresholdScale \div Scale
        /\ verdict.result = "pass" => verdict.margin >= 0
        /\ verdict.margin < 0 => verdict.result = "fail"
        /\ (verdict.result = "fail" /\ verdict.margin >= 0) =>
               /\ verdict.margin = 0
               /\ 2 * (-Difference) <= ThresholdScale \div Scale

\* C28 witness: an F1 of 0.6667 against a threshold of 0.66672 fails, and
\* the margin -0.00002 is reported as zero
C28_Witness ==
    /\ Judged
    /\ verdict.actualF1 = 6667 /\ verdict.threshold = 66672
    /\ verdict.result = "fail"
    /\ verdict.margin = 0

-----------------------------------------------------------------------------
(* The F1 of a class and its true positives *)

\* C29 as stated: the f1 returned for a class is 0 if and only if TP = 0;
\* when TP > 0 it equals 2*TP/(2*TP + FP + FN), to the 4 decimals returned,
\* and lies between min(precision, recall) and max(precision, recall)
\* inclusive.
C29_F1ZeroIffNoTruePositive ==
    Calculated =>
        \A c \in ClassSet :
            LET cm == metrics.metricsPerClass[c]
            IN  /\ cm.f1 = 0 <=> cm.truePositives = 0
                /\ cm.truePositives > 0 =>
                       /\ IsRounded(cm.f1, 2 * cm.truePositives,
                              2 * cm.truePositives + cm.falsePositives + cm.falseNegatives)
                       /\ Min({cm.precision, cm.recall}) <= cm.f1
                       /\ cm.f1 <= Max({cm.precision, cm.recall})

\* C29: the f1 returned for a class is 0 if TP = 0; when TP > 0 it is
\* 2*TP/(2*TP + FP + FN) rounded to 4 decimals, which is 0 only if that
\* quotient is at most half a unit of the fourth decimal, and it lies
\* between min(precision, recall) and max(precision, recall) as returned, to
\* within one unit of the fourth decimal.
C29_F1AndTruePositives ==
    Calculated =>
        \A c \in ClassSet :
            LET cm == metrics.metricsPerClass[c]
            IN  /\ cm.truePositives = matrix[c][c]
                /\ cm.truePositives = 0 => cm.f1 = 0
                /\ cm.truePositives > 0 =>
                       /\ IsRounded(cm.f1, 2 * cm.truePositives,
                              2 * cm.truePositives + cm.falsePositives + cm.falseNegatives)
                       /\ cm.f1 = 0 =>
                              4 * cm.truePositives * Scale <=
                                  2 * cm.truePositives + cm.falsePositives + cm.falseNegatives
                       /\ Min({cm.precision, cm.recall}) - 1 <= cm.f1
                       /\ cm.f1 <= Max({cm.precision, cm.recall}) + 1

\* C29 witness: one true positive of High among 40000 predictions of High:
\* precision 0.000025 and f1 2/40001 are both returned as 0.0, recall as 1.0
C29_Witness ==
    /\ Calculated
    /\ matrix \in SkewedMatrices
    /\ metrics.metricsPerClass[High].truePositives = 1
    /\ metrics.metricsPerClass[High].falsePositives = 4 * Scale - 1
    /\ metrics.metricsPerClass[High].recall = Scale
    /\ metrics.metricsPerClass[High].f1 = 0

-----------------------------------------------------------------------------
(* Record run: one record with several explanation strings through the     *)
(* extractor and one iteration of build_confusion_matrix                   *)

\* explanation strings that carry the pattern: with both labels in the
\* closed set, and with the predicted or the expected label outside it
PatternPool ==
    { MismatchMsg(Low, High), CorrectMsg(High, High),
      MismatchMsg(Critical, High), MismatchMsg(Low, Critical) }

\* the matrices of the records counted before this one
CountedPool == {ZeroMatrix, [ZeroMatrix EXCEPT ![High][Low] = 1]}

InitRecord ==
    /\ pc = "extract"
    /\ result \in {[eval_id |-> "case", misses |-> m, hits |-> h] :
                      m \in SeqsUpTo(PatternPool, MaxStrings),
                      h \in SeqsUpTo(PatternPool, MaxStrings)}
    /\ input \in {[counted |-> m] : m \in CountedPool}
    /\ matrix = input.counted
    /\ labels = <<>>
    /\ fileLines = <<>> /\ results = <<>> /\ idx = 0 /\ metrics = <<>> /\ verdict = <<>>
    /\ output = <<>>
    /\ exitCode = None

NextRecord == Extract \/ Count

SpecRecord == InitRecord /\ [][NextRecord]_vars

\* the strings of the record in the order the extractor reads them
MissesThenHits == Get(result, "misses") \o Get(result, "hits")

\* the labels of the first string of the record that carries the pattern
FirstPair == Search(MissesThenHits[FirstMatch(MissesThenHits)])

\* a later string of the record carries the pattern with two labels of the
\* closed set
LaterUsable ==
    \E i \in (FirstMatch(MissesThenHits) + 1)..Len(MissesThenHits) :
        /\ Search(MissesThenHits[i]) # <<>>
        /\ Search(MissesThenHits[i])[1] \in ClassSet
        /\ Search(MissesThenHits[i])[2] \in ClassSet

\* the labels extracted are those of pair, and the record was counted in the
\* cell of pair if both labels are of the closed set, in no cell otherwise
DecidedBy(pair) ==
    /\ labels = pair
    /\ pc = "counted" =>
           matrix = IF pair[1] \in ClassSet /\ pair[2] \in ClassSet
                    THEN [input.counted EXCEPT ![pair[2]][pair[1]] = @ + 1]
                    ELSE input.counted

\* C30: the contribution of a record is decided by the first string, in
\* miss-then-hit order, that carries the pattern: its labels are the ones
\* extracted, and if one of them is outside the closed class set the record
\* increments no cell, even when a later miss or hit of the record carries
\* the pattern with two labels of the closed set.
C30_FirstMatchDecides ==
    (pc \in {"extracted", "counted"} /\ FirstMatch(MissesThenHits) # 0) =>
        DecidedBy(FirstPair)

\* C30 witness: the first miss names a label outside the closed set, a hit
\* after it carries High for both labels, and the record was counted into a
\* matrix that stayed as it was
C30_Witness ==
    /\ pc = "counted"
    /\ result.misses = <<MismatchMsg(Critical, High)>>
    /\ result.hits = <<CorrectMsg(High, High)>>
    /\ LaterUsable
    /\ labels = <<Critical, High>>
    /\ input.counted[High][Low] = 1
    /\ matrix = input.counted

====
